---- MODULE Spec2Model ----
(***************************************************************************)
(* A model of simpleh5's H5ColStore: a columnar table kept as one growable *)
(* array per column plus a metadata blob (dtype map, flavor map).          *)
(* One table is modelled.  Every public method is one action; the backend  *)
(* (PyTables EArray) is modelled by the operations the store issues on it. *)
(***************************************************************************)
EXTENDS Integers, Sequences, FiniteSets, TLC

VARIABLES
    group,   \* TRUE iff the table's group node exists in the file
    nodes,   \* column name -> EArray node [atom, size, rows], for every existing column node
    attrs,   \* the table's persisted metadata (ATTR_CTABLE), see NoAttrs
    call,    \* the last public call: its arguments and whether it raised
    pre,     \* [group, nodes, attrs] as they were when the last call started
    ret,     \* the value the last call returned (read_ctable, table_info, next, the codec)
    wlog,    \* per column, the positions the last delete_rows wrote, in order
    okrun,   \* TRUE iff no call so far has raised
    ncalls,  \* the number of calls made so far
    fh,      \* the number of handles on the file that are open
    gen,     \* the generator iter_column returned, see NoGen
    disk     \* the .h5 file as the file system sees it, see NoDisk

vars == <<group, nodes, attrs, call, pre, ret, wlog, okrun, ncalls, fh, gen, disk>>

(***************************************************************************)
(* Bounds of the model.                                                    *)
(***************************************************************************)
MaxCalls == 4       \* the call sequences explored have at most MaxCalls calls
MaxRows == 3        \* an append is taken only while the table stays within MaxRows rows
MaxBatch == 2       \* longest batch a caller passes to append
MaxTable == 5       \* most rows of the table a focused specification starts from
MaxFocus == 1       \* calls a focused specification makes on that table
MaxRm == 3          \* longest list of positions passed as rows or inds

(***************************************************************************)
(* Values.  Every cell is a record with the same three fields, so that any *)
(* two cells can be compared.                                              *)
(*   int   : a Python/numpy number n                                       *)
(*   str   : a Python str, b its UTF-8 bytes                               *)
(*   list  : a Python list of small non-negative integers b                *)
(*   bytes : a byte string b                                               *)
(***************************************************************************)
I(n) == [t |-> "int", n |-> n, b |-> <<>>]
S(b) == [t |-> "str", n |-> 0, b |-> b]
L(b) == [t |-> "list", n |-> 0, b |-> b]
B(b) == [t |-> "bytes", n |-> 0, b |-> b]
PyError == [t |-> "error", n |-> 0, b |-> <<>>]
\* None: a value that is no str, list, tuple, dict, bytes or number
PyNone == [t |-> "none", n |-> 0, b |-> <<>>]

Min(a, b) == IF a < b THEN a ELSE b
Max(a, b) == IF a > b THEN a ELSE b
Range(s) == {s[i] : i \in DOMAIN s}

RECURSIVE SeqMax(_)
SeqMax(s) == IF s = <<>> THEN 0 ELSE Max(Head(s), SeqMax(Tail(s)))

RECURSIVE StripZeros(_)
\* numpy/PyTables drop the trailing zero bytes of a fixed-width byte string on read
StripZeros(b) ==
    IF b = <<>> THEN b
    ELSE IF b[Len(b)] = 0 THEN StripZeros(SubSeq(b, 1, Len(b) - 1)) ELSE b

RECURSIVE BytesLess(_, _)
\* byte strings compare lexicographically
BytesLess(x, y) ==
    IF y = <<>> THEN FALSE
    ELSE IF x = <<>> THEN TRUE
    ELSE IF Head(x) # Head(y) THEN Head(x) < Head(y)
    ELSE BytesLess(Tail(x), Tail(y))

(***************************************************************************)
(* Codec: serialize_utilities.py.  msgpack is modelled on the values of    *)
(* the model: a small non-negative int packs to the one byte n, a short    *)
(* str to 160+len followed by its bytes, a short list to 144+len followed  *)
(* by its elements.  blosc.compress is modelled as a header put in front   *)
(* of the payload.                                                         *)
(***************************************************************************)
SENTINEL == 49
BloscHeader == <<2, 1>>

packb(x) ==
    CASE x.t = "int" -> <<x.n>>
      [] x.t = "str" -> <<160 + Len(x.b)>> \o x.b
      [] x.t = "list" -> <<144 + Len(x.b)>> \o x.b
      [] x.t = "bytes" -> <<196, Len(x.b)>> \o x.b
      [] x.t = "none" -> <<192>>

unpackb(p) ==
    IF p = <<>> THEN PyError
    ELSE IF Head(p) < 128 THEN (IF Len(p) = 1 THEN I(Head(p)) ELSE PyError)
    ELSE IF Head(p) >= 160 /\ Head(p) < 192
         THEN (IF Len(p) = 1 + (Head(p) - 160) THEN S(Tail(p)) ELSE PyError)
    ELSE IF Head(p) >= 144 /\ Head(p) < 160
         THEN (IF Len(p) = 1 + (Head(p) - 144) THEN L(Tail(p)) ELSE PyError)
    ELSE IF Head(p) = 192 THEN (IF Len(p) = 1 THEN PyNone ELSE PyError)
    ELSE IF Head(p) = 196 /\ Len(p) >= 2
         THEN (IF Len(p) = 2 + p[2] THEN B(Tail(Tail(p))) ELSE PyError)
    ELSE PyError

blosc_compress(p) == BloscHeader \o p

\* an error is modelled as the empty payload, which unpackb rejects
blosc_decompress(c) ==
    IF Len(c) >= Len(BloscHeader) /\ SubSeq(c, 1, Len(BloscHeader)) = BloscHeader
    THEN SubSeq(c, Len(BloscHeader) + 1, Len(c))
    ELSE <<>>

\* msgpack_dumps that returns the payload as packed, with no byte after it
msgpack_dumps_no_sentinel(x, compress) ==
    IF compress THEN blosc_compress(packb(x)) ELSE packb(x)

msgpack_dumps(x, compress) ==
    LET data == packb(x)
    IN  IF compress THEN blosc_compress(data) \o <<SENTINEL>> ELSE data \o <<SENTINEL>>

\* x[:-1]
DropLast(x) == IF x = <<>> THEN x ELSE SubSeq(x, 1, Len(x) - 1)

msgpack_loads(x, compress) ==
    LET data == IF compress THEN blosc_decompress(DropLast(x)) ELSE DropLast(x)
    IN  unpackb(data)

(***************************************************************************)
(* numpy: np.array(data) of a homogeneous Python list.                     *)
(*   dt = "int"  numbers;  dt = "S" byte strings of itemsize `size`;       *)
(*   dt = "O"    anything else (object arrays, ragged lists).              *)
(* A list of str becomes a 'U' array, which _convert_data encodes to 'S'.  *)
(***************************************************************************)
AllOfType(data, t) == \A i \in DOMAIN data : data[i].t = t

np_array(data) ==
    IF data # <<>> /\ AllOfType(data, "int") THEN [dt |-> "int", size |-> 0, cells |-> data]
    ELSE IF data # <<>> /\ AllOfType(data, "bytes")
         THEN [dt |-> "S", size |-> Max(1, SeqMax([i \in DOMAIN data |-> Len(data[i].b)])),
               cells |-> data]
    ELSE IF data # <<>> /\ AllOfType(data, "str")
         THEN [dt |-> "U", size |-> Max(1, SeqMax([i \in DOMAIN data |-> Len(data[i].b)])),
               cells |-> data]
    ELSE [dt |-> "O", size |-> 0, cells |-> data]

\* np.core.defchararray.encode(data, 'utf-8')
np_encode(arr) ==
    [dt |-> "S", size |-> arr.size, cells |-> [i \in DOMAIN arr.cells |-> B(arr.cells[i].b)]]

(***************************************************************************)
(* Column dtypes: kind is one of i f s o c, width the declared byte width  *)
(* of an s/o/c column (0 for numbers).                                     *)
(***************************************************************************)
DT(k, w) == [kind |-> k, width |-> w]
IsStrKind(k) == k \in {"s", "o", "c"}

_convert_data(data, coldtype) ==
    LET enc == IF coldtype.kind = "c"
               THEN [i \in DOMAIN data |-> B(msgpack_dumps(data[i], TRUE))]
               ELSE IF coldtype.kind = "o"
               THEN [i \in DOMAIN data |-> B(msgpack_dumps(data[i], FALSE))]
               ELSE data
        arr == np_array(enc)
    IN  IF arr.dt = "U" THEN np_encode(arr) ELSE arr

(***************************************************************************)
(* Backend: a PyTables EArray node.                                        *)
(***************************************************************************)
Node(atom, size, rows) == [atom |-> atom, size |-> size, rows |-> rows]

\* what a StringAtom(size) cell holds after a write and a read back
StoreBytes(b, size) == B(StripZeros(SubSeq(b, 1, Min(Len(b), size))))

\* can the array be converted to the node's atom (convert_to_np_atom2)
Convertible(node, arr) ==
    IF node.atom = "string" THEN arr.dt = "S" ELSE arr.dt = "int"

AsStored(node, arr) ==
    IF node.atom = "string"
    THEN [i \in DOMAIN arr.cells |-> StoreBytes(arr.cells[i].b, node.size)]
    ELSE arr.cells

\* EArray.append(data); the caller checks Convertible first
EAppend(node, arr) == [node EXCEPT !.rows = node.rows \o AsStored(node, arr)]

\* EArray.truncate(size)
ETruncate(node, size) == [node EXCEPT !.rows = SubSeq(node.rows, 1, size)]

(***************************************************************************)
(* Ordered mappings (Python dicts keep insertion order): a sequence of     *)
(* [name, val] entries with distinct names.                                *)
(***************************************************************************)
Keys(od) == {od[i].name : i \in DOMAIN od}
Get(od, k) == od[CHOOSE i \in DOMAIN od : od[i].name = k].val
Put(od, k, v) ==
    IF k \in Keys(od)
    THEN [i \in DOMAIN od |-> IF od[i].name = k THEN [name |-> k, val |-> v] ELSE od[i]]
    ELSE Append(od, [name |-> k, val |-> v])
Del(od, k) == SelectSeq(od, LAMBDA e : e.name # k)
E(k, v) == [name |-> k, val |-> v]

EmptyMap == [x \in {} |-> 0]

(***************************************************************************)
(* The persisted table metadata.  exists: the ATTR_CTABLE blob is there;   *)
(* coldt: ATTR_COLDTYPE, ordered; hasFlavor/flavor: ATTR_COLFLAV.          *)
(***************************************************************************)
NoAttrs == [exists |-> FALSE, coldt |-> <<>>, hasFlavor |-> FALSE, flavor |-> EmptyMap]

\* the file as the store's helpers see it, and whether an exception is in flight
St(g, n, a, e) == [g |-> g, n |-> n, a |-> a, err |-> e]
Raise(st) == [st EXCEPT !.err = TRUE]

\* _write_attrs(h5, table_path, ATTR_COLDTYPE, coldt): fails when the group is missing
_write_coldtype(st, coldt) ==
    IF ~st.g THEN Raise(st)
    ELSE [st EXCEPT !.a.exists = TRUE, !.a.coldt = coldt]

\* _write_attrs(h5, table_path, ATTR_COLFLAV, colflavor)
_write_colflavor(st, colflavor) ==
    IF ~st.g THEN Raise(st)
    ELSE [st EXCEPT !.a.exists = TRUE, !.a.hasFlavor = TRUE, !.a.flavor = colflavor]

AtomOf(kind) == IF kind = "i" THEN "int64" ELSE IF kind = "f" THEN "float64" ELSE "string"

\* create_earray of an empty column; a NodeError when the node exists already
_create_column_from_dtype(st, col, dtype) ==
    IF col \in DOMAIN st.n THEN Raise(st)
    ELSE [st EXCEPT !.g = TRUE,
                    !.n = (col :> Node(AtomOf(dtype.kind), dtype.width, <<>>)) @@ st.n]

RECURSIVE CreateLoop(_, _, _)
CreateLoop(st, col_dtype, i) ==
    IF i > Len(col_dtype) \/ st.err THEN st
    ELSE CreateLoop(_create_column_from_dtype(st, col_dtype[i].name, col_dtype[i].val),
                    col_dtype, i + 1)

_create_ctable(st, col_dtype) ==
    LET s1 == CreateLoop(st, col_dtype, 1)
    IN  IF s1.err THEN s1 ELSE _write_coldtype(s1, col_dtype)

\* _create_column_from_data: the dtype is inferred from data[0], the column is created
\* holding the data.  Returns the new state and the inferred dtype.
_create_column_from_data(st, col, data) ==
    LET first == data[1].t
        objdt == IF first = "str" THEN "s" ELSE "o"
        conv  == IF first \in {"list", "bytes"}
                 THEN [i \in DOMAIN data |-> B(msgpack_dumps(data[i], FALSE))]
                 ELSE data
        arr0  == np_array(conv)
        arr   == IF arr0.dt = "U" THEN np_encode(arr0) ELSE arr0
        dtype == IF arr.dt = "int" THEN DT("i", 0) ELSE DT(objdt, arr.size)
        node  == Node(AtomOf(dtype.kind), dtype.width, <<>>)
    IN  IF data = <<>> \/ arr.dt = "O" \/ col \in DOMAIN st.n
        THEN [st |-> Raise(st), dtype |-> dtype]
        ELSE [st |-> [st EXCEPT !.g = TRUE, !.n = (col :> EAppend(node, arr)) @@ st.n],
              dtype |-> dtype]

\* a column the caller passes as a numpy array rather than as a list or tuple
NdE(k, v) == [name |-> k, val |-> v, nd |-> TRUE]
IsNd(col_data, c) ==
    \E i \in DOMAIN col_data : col_data[i].name = c /\ "nd" \in DOMAIN col_data[i]

\* the flavors _set_flavor computes from the containers of col_data
FlavorOf(col_data, coldt) ==
    [c \in Keys(coldt) |-> IF IsNd(col_data, c) THEN "numpy" ELSE "python"]

\* the flavor map is written wherever the call goes next
_set_flavor(st, col_data, coldt) ==
    _write_colflavor(st, FlavorOf(col_data, coldt))

\* _table_info: num_rows is the length of the first schema column
_table_info(st) ==
    IF ~st.a.exists THEN [err |-> FALSE, empty |-> TRUE, has |-> FALSE, nrows |-> 0]
    ELSE IF st.a.coldt = <<>> THEN [err |-> FALSE, empty |-> FALSE, has |-> FALSE, nrows |-> 0]
    ELSE IF st.a.coldt[1].name \notin DOMAIN st.n
         THEN [err |-> TRUE, empty |-> FALSE, has |-> FALSE, nrows |-> 0]
    ELSE [err |-> FALSE, empty |-> FALSE, has |-> TRUE,
          nrows |-> Len(st.n[st.a.coldt[1].name].rows)]

(***************************************************************************)
(* _safe_col_str_change: check the batch against the declared width and,   *)
(* when it is longer and resize is set, rewrite the column into a wider    *)
(* array and record the new width.                                         *)
(***************************************************************************)
Widen(node, dlen) ==
    Node("string", dlen, [i \in DOMAIN node.rows |-> StoreBytes(node.rows[i].b, dlen)])

\* a check that lets a batch wider than the column through as it is
_safe_col_str_change_no_width_check(st, col, coldtype, arr, resize) ==
    IF col \notin DOMAIN st.n THEN Raise(st)
    ELSE IF arr.dt # "S" THEN Raise(st)
    ELSE st

_safe_col_str_change(st, col, coldtype, arr, resize) ==
    IF col \notin DOMAIN st.n THEN Raise(st)
    ELSE IF arr.dt # "S" THEN Raise(st)
    ELSE IF arr.size <= coldtype.width THEN st
    ELSE IF ~resize THEN Raise(st)
    ELSE LET swapped == [st EXCEPT !.n[col] = Widen(st.n[col], arr.size)]
         IN  IF ~st.a.exists \/ col \notin Keys(st.a.coldt) THEN Raise(swapped)
             ELSE IF Get(st.a.coldt, col).kind \notin {"o", "s"} THEN Raise(swapped)
             ELSE _write_coldtype(swapped,
                      Put(st.a.coldt, col, DT(Get(st.a.coldt, col).kind, arr.size)))

(***************************************************************************)
(* _remove_array_rows: move the kept rows of the tail into the removed     *)
(* slots below it, then truncate.  Returns the node, the positions written *)
(* (in order) and whether it raised.                                       *)
(***************************************************************************)
RECURSIVE SortedSeq(_)
\* sorted(set)
SortedSeq(set) ==
    IF set = {} THEN <<>>
    ELSE LET m == CHOOSE x \in set : \A y \in set : x <= y
         IN  <<m>> \o SortedSeq(set \ {m})

\* Python indexing: a negative index counts from the end; -1 when out of range
PyIndex(i, len) ==
    LET j == IF i < 0 THEN i + len ELSE i
    IN  IF j >= 0 /\ j < len THEN j ELSE -1

RECURSIVE MoveLoop(_, _, _, _, _)
\* for i in range(len(move_rows)): node[replace_rows[i]] = node[move_rows[i]]
MoveLoop(rows, replace_rows, move_rows, i, writes) ==
    IF i > Len(move_rows) THEN [err |-> FALSE, rows |-> rows, writes |-> writes]
    ELSE LET src == PyIndex(move_rows[i], Len(rows))
             dst == PyIndex(replace_rows[i], Len(rows))
         IN  IF src < 0 \/ dst < 0 THEN [err |-> TRUE, rows |-> rows, writes |-> writes]
             ELSE MoveLoop([rows EXCEPT ![dst + 1] = rows[src + 1]], replace_rows, move_rows,
                           i + 1, Append(writes, dst))

Reverse(s) == [j \in DOMAIN s |-> s[Len(s) + 1 - j]]

\* the pairing with the tail rows taken from the end backwards
PairRows_descending(rows, replace_rows, move_rows) ==
    MoveLoop(rows, replace_rows, Reverse(move_rows), 1, <<>>)

PairRows(rows, replace_rows, move_rows) == MoveLoop(rows, replace_rows, move_rows, 1, <<>>)

\* a removal that keeps the order: every kept row behind the first removed one is
\* written one or more slots down
_remove_array_rows_shifting(node, rm_rows) ==
    LET node_len == Len(node.rows)
        rm == Range(rm_rows)
        kept == SelectSeq([p \in 1 .. node_len |-> p - 1], LAMBDA q : q \notin rm)
        first == CHOOSE r \in rm : \A x \in rm : r <= x
    IN  IF \E r \in rm : r < 0 \/ r >= node_len
        THEN [err |-> TRUE, node |-> node, writes |-> <<>>]
        ELSE [err |-> FALSE,
              node |-> [node EXCEPT !.rows = [j \in DOMAIN kept |-> node.rows[kept[j] + 1]]],
              writes |-> [j \in 1 .. (Len(kept) - first) |-> first + j - 1]]

_remove_array_rows(node, rm_rows) ==
    LET node_len == Len(node.rows)
        rm == Range(rm_rows)
        num_rm == Cardinality(rm)
        last_row == node_len - num_rm
        dont_worry_rows == {r \in rm : r >= last_row}
        move_rows == SortedSeq((last_row .. (node_len - 1)) \ dont_worry_rows)
        replace_rows == SortedSeq({r \in rm : r < last_row})
        moved == PairRows(node.rows, replace_rows, move_rows)
    IN  IF Len(move_rows) # Len(replace_rows)
        THEN [err |-> TRUE, node |-> node, writes |-> <<>>]
        ELSE IF moved.err \/ last_row < 0
        THEN [err |-> TRUE, node |-> [node EXCEPT !.rows = moved.rows], writes |-> moved.writes]
        ELSE [err |-> FALSE, node |-> ETruncate([node EXCEPT !.rows = moved.rows], last_row),
              writes |-> moved.writes]

(***************************************************************************)
(* Queries.  A query is either a bare triple or a list of clauses; a       *)
(* clause is a triple or a list of triples.                                *)
(***************************************************************************)
T(col, op, val) == [tag |-> "triple", col |-> col, op |-> op, val |-> val, items |-> <<>>]
Q(items) == [tag |-> "list", col |-> "", op |-> "", val |-> I(0), items |-> items]
NoQuery == Q(<<>>)

\* Python truthiness of a query argument: a triple is a non-empty tuple
Truthy(query) == query.tag = "triple" \/ query.items # <<>>

\* one "(n{k}{oper}{val})" term: str operands are encoded to bytes
Term(t) ==
    [k |-> "cmp", col |-> t.col, op |-> t.op,
     val |-> IF t.val.t = "str" THEN B(t.val.b) ELSE t.val, terms |-> <<>>]

OrTerm(ts) == [k |-> "or", col |-> "", op |-> "", val |-> I(0), terms |-> ts]

\* a search string that keeps only the first triple of a clause of several
_build_search_string_first_only(match) ==
    LET m == IF match.tag = "triple" THEN <<match>> ELSE match.items
        one(cond) == IF cond.tag = "triple" THEN Term(cond) ELSE Term(cond.items[1])
        strings == [i \in DOMAIN m |-> one(m[i])]
    IN  [match_strings |-> strings, uservars |-> {strings[i].col : i \in DOMAIN strings}]

\* the parsed form of the match string: the '&'-joined terms, and the columns it names
_build_search_string(match) ==
    LET m == IF match.tag = "triple" THEN <<match>> ELSE match.items
        one(cond) ==
            IF cond.tag = "triple" THEN Term(cond)
            ELSE IF Len(cond.items) = 1 THEN Term(cond.items[1])
            ELSE OrTerm([j \in DOMAIN cond.items |-> Term(cond.items[j])])
        strings == [i \in DOMAIN m |-> one(m[i])]
        colsOf(x) == IF x.k = "cmp" THEN {x.col} ELSE {x.terms[j].col : j \in DOMAIN x.terms}
    IN  [match_strings |-> strings,
         uservars |-> UNION {colsOf(strings[i]) : i \in DOMAIN strings}]

\* can numexpr compare a column of this atom with this literal
Comparable(node, val) ==
    IF node.atom = "string" THEN val.t = "bytes" ELSE val.t = "int"

Compare(cell, op, val) ==
    LET lt == IF val.t = "bytes" THEN BytesLess(cell.b, val.b) ELSE cell.n < val.n
        eq == IF val.t = "bytes" THEN cell.b = val.b ELSE cell.n = val.n
    IN  CASE op = "==" -> eq
          [] op = "!=" -> ~eq
          [] op = "<"  -> lt
          [] op = "<=" -> lt \/ eq
          [] op = ">"  -> ~lt /\ ~eq
          [] op = ">=" -> ~lt

\* tb.Expr(match_string, uservars).eval(): a boolean mask over the rows
EvalTerm(x, col_dict, p) ==
    IF x.k = "cmp" THEN Compare(col_dict[x.col].rows[p], x.op, x.val)
    ELSE \E j \in DOMAIN x.terms :
            Compare(col_dict[x.terms[j].col].rows[p], x.terms[j].op, x.terms[j].val)

TermOk(x, col_dict) ==
    IF x.k = "cmp" THEN Comparable(col_dict[x.col], x.val)
    ELSE \A j \in DOMAIN x.terms : Comparable(col_dict[x.terms[j].col], x.terms[j].val)

_filter_inds(col_dict, query) ==
    LET built == _build_search_string(query)
        ms == built.match_strings
        lens == {Len(col_dict[c].rows) : c \in built.uservars}
    IN  IF ms = <<>> \/ ~(built.uservars \subseteq DOMAIN col_dict) THEN [err |-> TRUE, inds |-> <<>>]
        ELSE IF Cardinality(lens) # 1 \/ ~(\A i \in DOMAIN ms : TermOk(ms[i], col_dict))
        THEN [err |-> TRUE, inds |-> <<>>]
        ELSE LET n == CHOOSE l \in lens : TRUE
             IN  [err |-> FALSE,
                  inds |-> [p \in 1 .. n |-> \A i \in DOMAIN ms : EvalTerm(ms[i], col_dict, p)]]

\* np.nonzero(mask)[0]: the 0-based positions that are TRUE, ascending
nonzero(mask) == SortedSeq({p - 1 : p \in {q \in DOMAIN mask : mask[q]}})

(***************************************************************************)
(* _append_ctable                                                          *)
(***************************************************************************)
RECURSIVE FromDataLoop(_, _, _, _)
\* for col, data in col_data.items(): coldt[col] = _create_column_from_data(...)
FromDataLoop(st, col_data, i, coldt) ==
    IF i > Len(col_data) \/ st.err THEN [st |-> st, coldt |-> coldt]
    ELSE LET r == _create_column_from_data(st, col_data[i].name, col_data[i].val)
         IN  FromDataLoop(r.st, col_data, i + 1, Append(coldt, E(col_data[i].name, r.dtype)))

\* one turn of the per-column loop: convert, widen if needed, append
AppendColumn(st, col, coldtype, data, resize) ==
    LET arr == _convert_data(data, coldtype)
        s1 == IF IsStrKind(coldtype.kind)
              THEN _safe_col_str_change(st, col, coldtype, arr, resize)
              ELSE IF col \notin DOMAIN st.n THEN Raise(st) ELSE st
    IN  IF s1.err THEN s1
        ELSE IF ~Convertible(s1.n[col], arr) THEN Raise(s1)
        ELSE [s1 EXCEPT !.n[col] = EAppend(@, arr)]

RECURSIVE AppendLoop(_, _, _, _, _)
\* the per-column loop leaving out the last column of the schema
AppendLoop_short(st, coldt, col_data, resize, i) ==
    IF i >= Len(coldt) \/ st.err THEN st
    ELSE AppendLoop(AppendColumn(st, coldt[i].name, coldt[i].val,
                                 Get(col_data, coldt[i].name), resize),
                    coldt, col_data, resize, i + 1)

\* for col, coldtype in coldt.items(): convert, widen, append (lines 613-626)
AppendLoop(st, coldt, col_data, resize, i) ==
    IF i > Len(coldt) \/ st.err THEN st
    ELSE AppendLoop(AppendColumn(st, coldt[i].name, coldt[i].val,
                                 Get(col_data, coldt[i].name), resize),
                    coldt, col_data, resize, i + 1)

RECURSIVE RestoreLoop(_, _, _, _)
\* truncate every column that grew back to prev_nrows
RestoreLoop(st, coldt, prev_nrows, i) ==
    IF i > Len(coldt) \/ st.err THEN st
    ELSE LET col == coldt[i].name
         IN  IF col \notin DOMAIN st.n THEN Raise(st)
             ELSE LET node == st.n[col]
                      cur_rows == Len(node.rows)
                      inds == [j \in 1 .. (cur_rows - prev_nrows) |-> prev_nrows + j - 1]
                      rm == _remove_array_rows(node, inds)
                  IN  IF cur_rows > prev_nrows
                      THEN RestoreLoop([st EXCEPT !.n[col] = rm.node, !.err = rm.err],
                                       coldt, prev_nrows, i + 1)
                      ELSE RestoreLoop(st, coldt, prev_nrows, i + 1)

\* the except branch without the restore loop: the error is re-raised as is
Restore_skipped(st, coldt, prev_nrows) == Raise(st)

Restore(st, coldt, prev_nrows) ==
    Raise(RestoreLoop([st EXCEPT !.err = FALSE], coldt, prev_nrows, 1))

\* the part of _append_ctable that runs once the table exists (lines 600-643).
\* loopfail: a column write raised inside the per-column loop; mid: the column nodes
\* as that loop left them, before the restore.
AppendExisting(st, col_data, resize) ==
    LET coldt == st.a.coldt
        s1 == IF ~st.a.hasFlavor THEN _set_flavor(st, col_data, coldt) ELSE st
        info == _table_info(s1)
        s2 == AppendLoop(s1, coldt, col_data, resize, 1)
    IN  IF ~(Keys(coldt) \subseteq Keys(col_data))
        THEN [st |-> Raise(st), loopfail |-> FALSE, mid |-> EmptyMap]
        ELSE IF info.err \/ ~info.has
        THEN [st |-> Raise(s1), loopfail |-> FALSE, mid |-> EmptyMap]
        ELSE IF s2.err
        THEN [st |-> Restore(s2, coldt, info.nrows), loopfail |-> TRUE, mid |-> s2.n]
        ELSE [st |-> s2, loopfail |-> FALSE, mid |-> EmptyMap]

NoLoop(st) == [st |-> st, loopfail |-> FALSE, mid |-> EmptyMap]

\* _append_ctable that takes the col_dtypes it is given as the schema of an existing table
_append_ctable_retyping(st, col_data, col_dtypes, resize) ==
    LET lens == {Len(col_data[i].val) : i \in DOMAIN col_data}
    IN  IF Cardinality(lens) # 1 THEN NoLoop(Raise(st))
        ELSE IF ~st.a.exists
        THEN IF col_dtypes # <<>>
             THEN LET s1 == _create_ctable(st, col_dtypes)
                  IN  IF s1.err THEN NoLoop(s1) ELSE AppendExisting(s1, col_data, resize)
             ELSE LET r == FromDataLoop(st, col_data, 1, <<>>)
                      s1 == _write_coldtype(r.st, r.coldt)
                  IN  IF r.st.err THEN NoLoop(r.st)
                      ELSE IF s1.err THEN NoLoop(s1)
                      ELSE NoLoop(_set_flavor(s1, col_data, r.coldt))
        ELSE IF col_dtypes # <<>> THEN NoLoop(_write_coldtype(st, col_dtypes))
        ELSE AppendExisting(st, col_data, resize)

\* _append_ctable without the check of lines 567-572 that all value sequences are equally long
_append_ctable_lengths_unchecked(st, col_data, col_dtypes, resize) ==
    IF ~st.a.exists
    THEN IF col_dtypes # <<>>
         THEN LET s1 == _create_ctable(st, col_dtypes)
              IN  IF s1.err THEN NoLoop(s1) ELSE AppendExisting(s1, col_data, resize)
         ELSE LET r == FromDataLoop(st, col_data, 1, <<>>)
                  s1 == _write_coldtype(r.st, r.coldt)
              IN  IF r.st.err THEN NoLoop(r.st)
                  ELSE IF s1.err THEN NoLoop(s1)
                  ELSE NoLoop(_set_flavor(s1, col_data, r.coldt))
    ELSE AppendExisting(st, col_data, resize)

_append_ctable(st, col_data, col_dtypes, resize) ==
    LET lens == {Len(col_data[i].val) : i \in DOMAIN col_data}
    IN  IF Cardinality(lens) # 1 THEN NoLoop(Raise(st))
        ELSE IF ~st.a.exists
        THEN IF col_dtypes # <<>>
             THEN LET s1 == _create_ctable(st, col_dtypes)
                  IN  IF s1.err THEN NoLoop(s1) ELSE AppendExisting(s1, col_data, resize)
             ELSE LET r == FromDataLoop(st, col_data, 1, <<>>)
                      s1 == _write_coldtype(r.st, r.coldt)
                  IN  IF r.st.err THEN NoLoop(r.st)
                      ELSE IF s1.err THEN NoLoop(s1)
                      ELSE NoLoop(_set_flavor(s1, col_data, r.coldt))
        ELSE AppendExisting(st, col_data, resize)

(***************************************************************************)
(* update_ctable                                                           *)
(***************************************************************************)
\* an assignment that writes the first value to every position
ESetItems_broadcast(node, inds, arr) ==
    LET vals == AsStored(node, arr)
    IN  [node EXCEPT !.rows =
            [p \in DOMAIN node.rows |->
                IF (p - 1) \in Range(inds) THEN vals[1] ELSE node.rows[p]]]

\* colnode[inds] = data: data of length 1 is broadcast, else written position by position
ESetItems(node, inds, arr) ==
    LET vals == AsStored(node, arr)
        k(p) == CHOOSE j \in DOMAIN inds : inds[j] = p - 1
    IN  [node EXCEPT !.rows =
            [p \in DOMAIN node.rows |->
                IF (p - 1) \in Range(inds)
                THEN (IF Len(vals) = 1 THEN vals[1] ELSE vals[k(p)])
                ELSE node.rows[p]]]

UpdateColumn(st, col_dtype, col, data, inds, resize) ==
    IF col \notin Keys(col_dtype) THEN Raise(st)
    ELSE LET coldtype == Get(col_dtype, col)
             arr == _convert_data(data, coldtype)
             s1 == IF IsStrKind(coldtype.kind)
                   THEN _safe_col_str_change(st, col, coldtype, arr, resize)
                   ELSE IF col \notin DOMAIN st.n THEN Raise(st) ELSE st
         IN  IF s1.err THEN s1
             ELSE IF ~Convertible(s1.n[col], arr) THEN Raise(s1)
             ELSE IF Len(arr.cells) # 1 /\ Len(arr.cells) # Len(inds) THEN Raise(s1)
             ELSE [s1 EXCEPT !.n[col] = ESetItems(@, inds, arr)]

RECURSIVE UpdateLoop(_, _, _, _, _, _)
UpdateLoop(st, col_dtype, col_data, inds, resize, i) ==
    IF i > Len(col_data) \/ st.err THEN st
    ELSE UpdateLoop(UpdateColumn(st, col_dtype, col_data[i].name, col_data[i].val, inds, resize),
                    col_dtype, col_data, inds, resize, i + 1)

\* the error checking without the comparison of the sequences' lengths
UpdateArgsOk_lengths_unchecked(query, col_data) ==
    /\ Truthy(query)
    /\ col_data # <<>>

\* the error checking of lines 365-376: a query is required, the sequences agree in length
UpdateArgsOk(query, col_data) ==
    /\ Truthy(query)
    /\ col_data # <<>>
    /\ \A i \in DOMAIN col_data : Len(col_data[i].val) = Len(col_data[1].val)

\* lines 388-390: the common length is 1 or the number of matched rows
UpdateLenOk(change_len, inds) == change_len = 1 \/ change_len = Len(inds)

update_ctable(st, query, col_data, resize) ==
    IF ~UpdateArgsOk(query, col_data) THEN Raise(st)
    ELSE IF ~st.a.exists THEN Raise(st)
    ELSE LET f == _filter_inds(st.n, query)
             inds == nonzero(f.inds)
         IN  IF f.err THEN Raise(st)
             ELSE IF ~UpdateLenOk(Len(col_data[1].val), inds) THEN Raise(st)
             ELSE UpdateLoop(st, st.a.coldt, col_data, inds, resize, 1)

(***************************************************************************)
(* read_ctable                                                             *)
(***************************************************************************)
\* the conversion of the raw column data after the file is closed (lines 496-507)
Decode(cell, dtype) ==
    CASE dtype.kind = "o" -> msgpack_loads(cell.b, FALSE)
      [] dtype.kind = "c" -> msgpack_loads(cell.b, TRUE)
      [] dtype.kind = "s" -> S(cell.b)
      [] OTHER -> cell

\* node[np.array(inds)] for a list of positions: the rows in the order given
ETake(node, inds) ==
    [j \in DOMAIN inds |-> node.rows[PyIndex(inds[j], Len(node.rows)) + 1]]

\* node[np.array(mask)] for a boolean mask: the rows whose mask is TRUE, ascending
EMask(node, mask) == ETake(node, nonzero(mask))

\* a selection in which an empty query selects no row
Selection_empty_selects_none(st, query, inds) ==
    IF Truthy(query) /\ inds = <<>>
    THEN LET f == _filter_inds(st.n, query)
         IN  [err |-> f.err, how |-> IF Len(f.inds) = 0 THEN "all" ELSE "mask",
              mask |-> f.inds, inds |-> <<>>]
    ELSE IF inds = <<>>
    THEN [err |-> FALSE, how |-> "mask",
          mask |-> [p \in 1 .. _table_info(st).nrows |-> FALSE], inds |-> <<>>]
    ELSE [err |-> FALSE, how |-> "inds", mask |-> <<>>, inds |-> inds]

\* a selection in which a query, when given, wins over inds
Selection_query_first(st, query, inds) ==
    IF Truthy(query)
    THEN LET f == _filter_inds(st.n, query)
         IN  [err |-> f.err, how |-> IF Len(f.inds) = 0 THEN "all" ELSE "mask",
              mask |-> f.inds, inds |-> <<>>]
    ELSE [err |-> FALSE, how |-> IF Len(inds) = 0 THEN "all" ELSE "inds",
          mask |-> <<>>, inds |-> inds]

\* which rows read_ctable pulls (lines 477-493): all of them when inds is empty
Selection(st, query, inds) ==
    IF Truthy(query) /\ inds = <<>>
    THEN LET f == _filter_inds(st.n, query)
         IN  [err |-> f.err, how |-> IF Len(f.inds) = 0 THEN "all" ELSE "mask",
              mask |-> f.inds, inds |-> <<>>]
    ELSE [err |-> FALSE, how |-> IF Len(inds) = 0 THEN "all" ELSE "inds",
          mask |-> <<>>, inds |-> inds]

ReadColumn(st, col, sel) ==
    LET node == st.n[col]
        raw == CASE sel.how = "all" -> node.rows
                 [] sel.how = "mask" -> EMask(node, sel.mask)
                 [] sel.how = "inds" -> ETake(node, sel.inds)
    IN  [j \in DOMAIN raw |-> Decode(raw[j], Get(st.a.coldt, col))]

ReadColumnOk(st, col, sel) ==
    /\ col \in DOMAIN st.n
    /\ sel.how = "mask" => Len(sel.mask) = Len(st.n[col].rows)
    /\ sel.how = "inds" =>
          \A j \in DOMAIN sel.inds : PyIndex(sel.inds[j], Len(st.n[col].rows)) >= 0
    /\ \A j \in DOMAIN ReadColumn(st, col, sel) : ReadColumn(st, col, sel)[j] # PyError
    /\ st.a.hasFlavor => col \in DOMAIN st.a.flavor

\* cols is the set of the names in the caller's list; an empty list means every column
ReturnCols(coldt, cols) == IF cols # {} THEN Keys(coldt) \cap cols ELSE Keys(coldt)

read_ctable(st, cols, query, inds) ==
    LET return_cols == ReturnCols(st.a.coldt, cols)
        sel == Selection(st, query, inds)
    IN  IF ~st.a.exists \/ sel.err \/ ~(\A c \in return_cols : ReadColumnOk(st, c, sel))
        THEN [err |-> TRUE, data |-> EmptyMap]
        ELSE [err |-> FALSE, data |-> [c \in return_cols |-> ReadColumn(st, c, sel)]]

(***************************************************************************)
(* delete_rows                                                             *)
(***************************************************************************)
RECURSIVE RemoveLoop(_, _, _, _, _)
\* for col in col_dtype: self._remove_array_rows(node, inds)
RemoveLoop(st, coldt, inds, i, wl) ==
    IF i > Len(coldt) \/ st.err THEN [st |-> st, wl |-> wl]
    ELSE LET col == coldt[i].name
         IN  IF col \notin DOMAIN st.n THEN [st |-> Raise(st), wl |-> wl]
             ELSE LET rm == _remove_array_rows(st.n[col], inds)
                  IN  RemoveLoop([st EXCEPT !.n[col] = rm.node, !.err = rm.err],
                                 coldt, inds, i + 1, (col :> rm.writes) @@ wl)

RECURSIVE RemoveLoop_requery(_, _, _, _, _, _)
\* the per-column loop with the query evaluated again for every column
RemoveLoop_requery(st, coldt, query, rows, i, wl) ==
    IF i > Len(coldt) \/ st.err THEN [st |-> st, wl |-> wl]
    ELSE LET col == coldt[i].name
             f == _filter_inds(st.n, query)
             inds == IF rows # <<>> THEN rows ELSE nonzero(f.inds)
         IN  IF col \notin DOMAIN st.n \/ (rows = <<>> /\ f.err)
             THEN [st |-> Raise(st), wl |-> wl]
             ELSE IF inds = <<>>
             THEN RemoveLoop_requery(st, coldt, query, rows, i + 1, wl)
             ELSE LET rm == _remove_array_rows(st.n[col], inds)
                  IN  RemoveLoop_requery([st EXCEPT !.n[col] = rm.node, !.err = rm.err],
                                         coldt, query, rows, i + 1, (col :> rm.writes) @@ wl)

\* lines 842-852: the positions to remove, resolved before any column is touched
ResolveRows(st, query, rows) ==
    IF rows # <<>> THEN [err |-> FALSE, inds |-> rows]
    ELSE LET f == _filter_inds(st.n, query)
         IN  [err |-> f.err, inds |-> nonzero(f.inds)]

delete_rows_requery(st, query, rows) ==
    IF (Truthy(query) /\ rows # <<>>) \/ (~Truthy(query) /\ rows = <<>>)
    THEN [st |-> Raise(st), wl |-> EmptyMap]
    ELSE IF ~st.a.exists THEN [st |-> Raise(st), wl |-> EmptyMap]
    ELSE RemoveLoop_requery(st, st.a.coldt, query, rows, 1, EmptyMap)

delete_rows(st, query, rows) ==
    IF (Truthy(query) /\ rows # <<>>) \/ (~Truthy(query) /\ rows = <<>>)
    THEN [st |-> Raise(st), wl |-> EmptyMap]
    ELSE IF ~st.a.exists THEN [st |-> Raise(st), wl |-> EmptyMap]
    ELSE LET r == ResolveRows(st, query, rows)
         IN  IF r.err THEN [st |-> Raise(st), wl |-> EmptyMap]
             ELSE IF Len(r.inds) = 0 THEN [st |-> st, wl |-> EmptyMap]
             ELSE RemoveLoop(st, st.a.coldt, r.inds, 1, EmptyMap)

(***************************************************************************)
(* create_ctable, add_column, delete_column                                *)
(***************************************************************************)
create_ctable(st, col_dtypes) == _create_ctable(st, col_dtypes)

\* _add_column(h5, table_path, col_name, col_data, col_dtype, True)
_add_column(st, col, data, dtype, resize) ==
    LET arr == _convert_data(data, dtype)
        s1 == IF IsStrKind(dtype.kind)
              THEN _safe_col_str_change(st, col, dtype, arr, resize)
              ELSE IF col \notin DOMAIN st.n THEN Raise(st) ELSE st
    IN  IF s1.err THEN s1
        ELSE IF ~Convertible(s1.n[col], arr) THEN Raise(s1)
        ELSE [s1 EXCEPT !.n[col] = EAppend(@, arr)]

NoDtype == DT("", 0)

\* add_column without the comparison of len(col_data) with the table's row count
add_column_any_length(st, col, col_data, col_dtype) ==
    LET info == _table_info(st)
        made == IF col_dtype # NoDtype
                THEN LET s1 == _create_column_from_dtype(st, col, col_dtype)
                     IN  [st |-> IF s1.err THEN s1 ELSE _add_column(s1, col, col_data, col_dtype, TRUE),
                          dtype |-> col_dtype]
                ELSE _create_column_from_data(st, col, col_data)
        s2 == _write_coldtype(made.st, Put(st.a.coldt, col, made.dtype))
    IN  IF info.err \/ info.empty \/ ~info.has THEN Raise(st)
        ELSE IF made.st.err THEN made.st
        ELSE IF s2.err THEN s2
        ELSE IF ~st.a.hasFlavor THEN Raise(s2)
        ELSE _write_colflavor(s2, (col :> "python") @@ st.a.flavor)

add_column(st, col, col_data, col_dtype) ==
    LET info == _table_info(st)
        made == IF col_dtype # NoDtype
                THEN LET s1 == _create_column_from_dtype(st, col, col_dtype)
                     IN  [st |-> IF s1.err THEN s1 ELSE _add_column(s1, col, col_data, col_dtype, TRUE),
                          dtype |-> col_dtype]
                ELSE _create_column_from_data(st, col, col_data)
        s2 == _write_coldtype(made.st, Put(st.a.coldt, col, made.dtype))
    IN  IF info.err \/ info.empty \/ ~info.has THEN Raise(st)
        ELSE IF info.nrows # Len(col_data) THEN Raise(st)
        ELSE IF made.st.err THEN made.st
        ELSE IF s2.err THEN s2
        ELSE IF ~st.a.hasFlavor THEN Raise(s2)
        ELSE _write_colflavor(s2, (col :> "python") @@ st.a.flavor)

\* h5.remove_node(colpath); del attrs[COLDTYPE][col]; del attrs[COLFLAV][col]:
\* the state after the first of the three that raises, or after all three
RemoveAndForget(st, col) ==
    IF col \notin DOMAIN st.n THEN Raise(st)
    ELSE LET s1 == [st EXCEPT !.n = [c \in DOMAIN st.n \ {col} |-> st.n[c]]]
         IN  IF col \notin Keys(s1.a.coldt) THEN Raise(s1)
             ELSE LET s2 == [s1 EXCEPT !.a.coldt = Del(s1.a.coldt, col)]
                  IN  IF ~s2.a.hasFlavor \/ col \notin DOMAIN s2.a.flavor THEN Raise(s2)
                      ELSE [s2 EXCEPT !.a.flavor = [c \in DOMAIN s2.a.flavor \ {col} |->
                                                        s2.a.flavor[c]]]

\* In RemoveAndForget the dicts are the in-memory copies: only the two _write_attrs
\* calls at the end persist them.
delete_column(st, col, raise_exception) ==
    IF ~st.a.exists THEN Raise(st)
    ELSE IF col \notin Keys(st.a.coldt) /\ raise_exception THEN Raise(st)
    ELSE LET r == RemoveAndForget(st, col)
             mem == r.a
             onDisk == [r EXCEPT !.a = st.a, !.err = FALSE]
         IN  IF r.err /\ raise_exception THEN Raise(onDisk)
             ELSE LET s1 == _write_coldtype(onDisk, mem.coldt)
                  IN  IF ~mem.hasFlavor THEN Raise(s1)
                      ELSE _write_colflavor(s1, mem.flavor)

(***************************************************************************)
(* The public calls as actions.  Each action is the whole call: the file   *)
(* is opened, the method runs to its return or to its exception, the file  *)
(* is closed.  What was written before an exception stays written.         *)
(***************************************************************************)
NoCall ==
    [op |-> "init", ok |-> TRUE, query |-> NoQuery, rows |-> <<>>, cols |-> {},
     col_data |-> <<>>, col_dtypes |-> <<>>, resize |-> TRUE, col |-> "", dtype |-> NoDtype,
     raise_exception |-> FALSE, loopfail |-> FALSE, mid |-> EmptyMap]

Cur == St(group, nodes, attrs, FALSE)

\* self.open(mode): the handle tb.open_file returns
Open(h) == h + 1

\* leaving a `with self.open(...) as h5:` block, by return or by exception
Close(h) == h - 1

\* no generator; state is none, created, suspended (at a yield) or finished
NoGen == [state |-> "none", col |-> "", flavor |-> "", pos |-> 0]

\* a store on a path where no file is yet.  file: the .h5 file exists (open in mode 'a'
\* creates it, open in mode 'r' needs it); marker: it holds the '/_last_repack' array;
\* stamps: how often that array was written
NoDisk == [file |-> FALSE, marker |-> FALSE, stamps |-> 0]

Record(c, r, retv, wl) ==
    /\ ncalls' = ncalls + 1
    /\ group' = r.g
    /\ nodes' = r.n
    /\ attrs' = r.a
    /\ call' = [c EXCEPT !.ok = ~r.err]
    /\ pre' = [group |-> group, nodes |-> nodes, attrs |-> attrs, disk |-> disk]
    /\ ret' = retv
    /\ wlog' = wl
    /\ okrun' = (okrun /\ ~r.err)

\* a public method that does all its work inside one with block
Done(c, r, retv, wl) ==
    /\ Record(c, r, retv, wl)
    /\ fh' = Close(Open(fh))
    /\ gen' = gen
    /\ disk' = [disk EXCEPT !.file = @ \/ c.op \notin {"read_ctable", "table_info"}]

\* the longest column node of the table
CurRows == SeqMax(SortedSeq({Len(nodes[c].rows) : c \in DOMAIN nodes}))

DoCreate(col_dtypes) ==
    Done([NoCall EXCEPT !.op = "create_ctable", !.col_dtypes = col_dtypes],
         create_ctable(Cur, col_dtypes), EmptyMap, EmptyMap)

DoAppend(col_data, col_dtypes, resize) ==
    \E r \in {_append_ctable(Cur, col_data, col_dtypes, resize)} :
        Done([NoCall EXCEPT !.op = "append_ctable", !.col_data = col_data,
                            !.col_dtypes = col_dtypes, !.resize = resize,
                            !.loopfail = r.loopfail, !.mid = r.mid],
             r.st, EmptyMap, EmptyMap)

DoUpdate(query, col_data, resize) ==
    Done([NoCall EXCEPT !.op = "update_ctable", !.query = query, !.col_data = col_data,
                        !.resize = resize],
         update_ctable(Cur, query, col_data, resize), EmptyMap, EmptyMap)

DoRead(cols, query, inds) ==
    \E r \in {read_ctable(Cur, cols, query, inds)} :
        Done([NoCall EXCEPT !.op = "read_ctable", !.cols = cols, !.query = query, !.rows = inds],
             [Cur EXCEPT !.err = r.err], r.data, EmptyMap)

DoDeleteRows(query, rows) ==
    \E r \in {delete_rows(Cur, query, rows)} :
        Done([NoCall EXCEPT !.op = "delete_rows", !.query = query, !.rows = rows],
             r.st, EmptyMap, r.wl)

DoAddColumn(col, data, dtype) ==
    Done([NoCall EXCEPT !.op = "add_column", !.col = col, !.col_data = <<E(col, data)>>,
                        !.dtype = dtype],
         add_column(Cur, col, data, dtype), EmptyMap, EmptyMap)

DoDeleteColumn(col, raise_exception) ==
    Done([NoCall EXCEPT !.op = "delete_column", !.col = col,
                        !.raise_exception = raise_exception],
         delete_column(Cur, col, raise_exception), EmptyMap, EmptyMap)

\* a new H5ColStore on a file that holds no table
Init ==
    /\ group = FALSE
    /\ nodes = EmptyMap
    /\ attrs = NoAttrs
    /\ call = NoCall
    /\ pre = [group |-> FALSE, nodes |-> EmptyMap, attrs |-> NoAttrs, disk |-> NoDisk]
    /\ ret = EmptyMap
    /\ wlog = EmptyMap
    /\ okrun = TRUE
    /\ ncalls = 0
    /\ fh = 0
    /\ gen = NoGen
    /\ disk = NoDisk

(***************************************************************************)
(* The arguments the callers of the model pass.                            *)
(***************************************************************************)
Ints(k, n) == [j \in 1 .. n |-> I(k + j - 1)]
StrShort(n) == [j \in 1 .. n |-> S(<<96 + j>>)]
StrLong(n) == [j \in 1 .. n |-> S(<<96 + j, 96 + j>>)]
ObjShort(n) == [j \in 1 .. n |-> L(<<j - 1>>)]
ObjLong(n) == [j \in 1 .. n |-> L(<<j, j>>)]
StrWide(n) == [j \in 1 .. n |-> S(<<96 + j, 96 + j, 96 + j>>)]

(***************************************************************************)
(* Spec: every public call, from a small set of arguments each.            *)
(***************************************************************************)
Schemas ==
    { <<E("c1", DT("i", 0)), E("c2", DT("s", 1))>>,
      <<E("c1", DT("f", 0)), E("c3", DT("c", 5))>>,
      <<E("c3", DT("o", 3))>> }

AppendData(n) ==
    { <<E("c1", Ints(0, n)), E("c2", StrShort(n))>>,
      <<E("c3", ObjLong(n)), E("c1", Ints(1, n)), E("c2", StrLong(n))>>,
      <<E("c2", Ints(0, n)), E("c1", Ints(0, n)), E("c3", ObjShort(n))>>,
      <<E("c1", Ints(0, n)), E("c2", StrShort(n + 1))>> }

Queries ==
    { T("c1", ">", I(0)),
      Q(<<Q(<<T("c1", ">", I(1)), T("c1", "<=", I(0))>>), T("c2", "!=", S(<<98>>))>>) }

RowLists == { <<0>>, <<1, 0>>, <<-1>> }

UpdateData ==
    { <<E("c1", Ints(2, 1))>>,
      <<E("c2", StrLong(1)), E("c1", Ints(0, 1))>>,
      <<E("c1", Ints(1, 2)), E("c2", StrShort(2))>> }

ReadArgs ==
    {<<{}, q, <<>>>> : q \in Queries \cup {NoQuery}} \cup {<<{"c2"}, NoQuery, <<1, 0>>>>}

DeleteArgs ==
    {<<q, <<>>>> : q \in Queries} \cup {<<NoQuery, rows>> : rows \in RowLists}

CreateCtable ==
    /\ ncalls < MaxCalls
    /\ \E ct \in Schemas : DoCreate(ct)

AppendCtable ==
    /\ ncalls < MaxCalls
    /\ \E n \in 1 .. MaxBatch : \E d \in AppendData(n) : \E rz \in BOOLEAN :
          CurRows + n <= MaxRows /\ DoAppend(d, <<>>, rz)

UpdateCtable ==
    /\ ncalls < MaxCalls
    /\ \E q \in Queries : \E d \in UpdateData : DoUpdate(q, d, TRUE)

ReadCtable ==
    /\ ncalls < MaxCalls
    /\ \E a \in ReadArgs : DoRead(a[1], a[2], a[3])

DeleteRows ==
    /\ ncalls < MaxCalls
    /\ \E a \in DeleteArgs : DoDeleteRows(a[1], a[2])

AddColumn ==
    /\ ncalls < MaxCalls
    /\ \E n \in 1 .. MaxRows : \E d \in {StrLong(n), ObjShort(n)} :
          \E dt \in {NoDtype, DT("s", 1)} : DoAddColumn("c3", d, dt)

DeleteColumn ==
    /\ ncalls < MaxCalls
    /\ \E col \in {"c1", "c3"} : \E rx \in BOOLEAN : DoDeleteColumn(col, rx)

Next ==
    \/ CreateCtable
    \/ AppendCtable
    \/ UpdateCtable
    \/ ReadCtable
    \/ DeleteRows
    \/ AddColumn
    \/ DeleteColumn

Spec == Init /\ [][Next]_vars

(***************************************************************************)
(* The focused specifications start from a table made by one append_ctable *)
(* on an empty file, with the dtypes inferred from the data or declared.   *)
(***************************************************************************)
Dups(n) == [j \in 1 .. n |-> I(j % 2)]
StrPairs(n) == [j \in 1 .. n |-> S(<<97 + (j % 2), 96 + j>>)]

LoadArgs(n) ==
    { << <<E("c1", Ints(0, n)), E("c2", StrShort(n))>>, <<>> >>,
      << <<E("c1", Dups(n)), E("c2", StrShort(n)), E("c3", ObjShort(n))>>,
         <<E("c1", DT("i", 0)), E("c2", DT("s", 1)), E("c3", DT("o", 3))>> >>,
      << <<E("c3", ObjShort(n)), E("c2", StrPairs(n)), E("c1", Ints(0, n))>>,
         <<E("c2", DT("s", 2)), E("c3", DT("c", 5)), E("c1", DT("f", 0))>> >> }

LoadTable ==
    /\ ncalls = 0
    /\ \E n \in 1 .. MaxTable : \E a \in LoadArgs(n) : DoAppend(a[1], a[2], TRUE)

Loaded == attrs.exists /\ ncalls >= 1 /\ ncalls <= MaxFocus

(***************************************************************************)
(* SpecAppend: one table, then append_ctable with every combination of     *)
(* fitting, too long and wrongly typed columns.                            *)
(***************************************************************************)
AppendArgs(n) ==
    { <<E("c1", d1), E("c2", d2)>> \o d3 :
        d1 \in {Ints(5, n), StrShort(n)},
        d2 \in {StrShort(n), StrLong(n), StrWide(n), Ints(0, n)},
        d3 \in {<<>>, <<E("c3", ObjShort(n))>>, <<E("c3", ObjLong(n))>>} }

\* col_dtypes is left out, or names other kinds and widths than the table has
AppendAny ==
    /\ Loaded
    /\ \E n \in 1 .. MaxBatch : \E d \in AppendArgs(n) : \E rz \in BOOLEAN :
       \E ct \in {<<>>, <<E("c1", DT("s", 3)), E("c2", DT("i", 0)), E("c3", DT("s", 1))>>} :
          DoAppend(d, ct, rz)

NextAppend ==
    \/ LoadTable
    \/ AppendAny

SpecAppend == Init /\ [][NextAppend]_vars

(***************************************************************************)
(* SpecDelete: one table, then delete_rows by positions (in any order,     *)
(* with repeats, valid or not) or by query.                                *)
(***************************************************************************)
\* the lists of up to MaxRm distinct positions of a table of n rows, ascending
RowSets(n) ==
    {SortedSeq(R) : R \in {X \in SUBSET (0 .. n - 1) : X # {} /\ Cardinality(X) <= MaxRm}}

\* the same positions from the last to the first, the first one twice
Shuffled(rows) == Reverse(rows) \o <<rows[1]>>

BadRows(n) == { <<n>>, <<0, n>>, <<-1>>, <<n - 1, -1>> }

DeleteQueries ==
    { T("c1", ">=", I(1)),
      T("c1", "<", I(0)),
      Q(<<Q(<<T("c1", "==", I(0)), T("c2", "==", S(<<98>>))>>)>>),
      Q(<<T("c1", ">", I(0)), T("c2", "!=", S(<<99>>))>>) }

DeleteAnyArgs(n) ==
    {<<NoQuery, rows>> : rows \in RowSets(n) \cup {Shuffled(r) : r \in RowSets(n)} \cup BadRows(n)}
    \cup {<<q, <<>>>> : q \in DeleteQueries}

DeleteAny ==
    /\ Loaded
    /\ \E a \in DeleteAnyArgs(CurRows) : DoDeleteRows(a[1], a[2])

NextDelete ==
    \/ LoadTable
    \/ DeleteAny

SpecDelete == Init /\ [][NextDelete]_vars

(***************************************************************************)
(* SpecRead: one table, then read_ctable with a query of every shape, with *)
(* positions in any order, with and without a list of columns.             *)
(***************************************************************************)
ReadQueries ==
    { NoQuery,
      T("c1", ">", I(1)),
      Q(<<T("c1", ">=", I(1))>>),
      Q(<<Q(<<T("c1", ">", I(2)), T("c1", "<=", I(0))>>)>>),
      Q(<<T("c1", ">", I(0)), T("c2", "!=", S(<<98>>))>>),
      Q(<<Q(<<T("c1", "==", I(0)), T("c2", "==", S(<<99>>))>>), T("c1", "<", I(3)),
          Q(<<T("c2", ">", S(<<97>>))>>)>>),
      T("c1", "<", I(0)),
      T("c3", "==", I(1)) }

ReadInds(n) == {<<>>, <<n>>} \cup RowSets(n) \cup {Shuffled(r) : r \in RowSets(n)}

ReadCols == { {}, {"c2"}, {"c1", "c4"}, {"c4"} }

\* a read leaves the file as it is: one read of each table is every read of it
ReadAny ==
    /\ attrs.exists /\ ncalls = 1
    /\ \E q \in ReadQueries : \E inds \in ReadInds(CurRows) : \E cols \in ReadCols :
          DoRead(cols, q, inds)

NextRead ==
    \/ LoadTable
    \/ ReadAny

SpecRead == Init /\ [][NextRead]_vars

(***************************************************************************)
(* SpecUpdate: one table, then update_ctable with one or two columns of    *)
(* one to MaxRm values each, fitting or too long.                          *)
(***************************************************************************)
UpdateQueries ==
    { NoQuery,
      T("c1", ">=", I(1)),
      T("c1", "<", I(0)),
      Q(<<Q(<<T("c1", "==", I(0)), T("c2", "==", S(<<98>>))>>)>>) }

UpdateArgs ==
    {<<E("c1", Ints(7, l))>> : l \in 1 .. MaxRm}
    \cup {<<E("c2", StrLong(l))>> : l \in 1 .. MaxRm}
    \cup {<<E("c1", Ints(7, l1)), E("c2", d2)>> :
            l1 \in 1 .. MaxRm, d2 \in UNION {{StrShort(l), StrLong(l)} : l \in 1 .. MaxRm}}
    \cup {<<E("c2", d2), E("c1", Ints(7, l1))>> :
            l1 \in 1 .. MaxRm, d2 \in UNION {{StrShort(l), StrLong(l)} : l \in 1 .. MaxRm}}
    \cup { <<E("c3", ObjLong(1))>>,
           <<E("c1", Ints(7, 1)), E("c3", ObjLong(1))>>,
           <<E("c4", Ints(7, 1)), E("c1", Ints(7, 1))>>,
           <<E("c1", Ints(7, 1)), E("c4", Ints(7, 1))>> }

UpdateAny ==
    /\ Loaded
    /\ \E q \in UpdateQueries : \E d \in UpdateArgs : \E rz \in BOOLEAN : DoUpdate(q, d, rz)

NextUpdate ==
    \/ LoadTable
    \/ UpdateAny

SpecUpdate == Init /\ [][NextUpdate]_vars

(***************************************************************************)
(* The codec on its own: a value is dumped, the blob is written to a cell  *)
(* of a string column at least as wide as the blob and read back (which    *)
(* drops its trailing zero bytes), and the cell is loaded.  The file is    *)
(* not touched.                                                            *)
(***************************************************************************)
MaxPayload == 3     \* longest str or list dumped
MaxPad == 1         \* how much wider than the blob the cell is

RECURSIVE Words(_, _)
Words(A, n) ==
    IF n = 0 THEN {<<>>}
    ELSE LET W == Words(A, n - 1) IN W \cup {Append(w, a) : w \in W, a \in A}

\* the zero byte, a small byte, and the byte equal to the sentinel
PayloadBytes == {0, 1, SENTINEL}

Payloads ==
    {I(n) : n \in PayloadBytes}
        \cup {S(b) : b \in Words(PayloadBytes, MaxPayload)}
        \cup {L(b) : b \in Words(PayloadBytes, MaxPayload)}

CodecDumps ==
    /\ ncalls = 0
    /\ \E x \in Payloads : \E compress \in BOOLEAN :
          /\ Record([x |-> x, compress |-> compress] @@ [NoCall EXCEPT !.op = "msgpack_dumps"],
                    Cur, [blob |-> msgpack_dumps(x, compress)], EmptyMap)
          /\ UNCHANGED <<fh, gen, disk>>

CodecStore ==
    /\ call.op = "msgpack_dumps"
    /\ \E pad \in 0 .. MaxPad :
          /\ Record([call EXCEPT !.op = "store"], Cur,
                    [blob |-> ret.blob, width |-> Len(ret.blob) + pad,
                     cell |-> StoreBytes(ret.blob, Len(ret.blob) + pad).b],
                    EmptyMap)
          /\ UNCHANGED <<fh, gen, disk>>

CodecLoads ==
    /\ call.op = "store"
    /\ Record([call EXCEPT !.op = "msgpack_loads"], Cur,
              [blob |-> ret.blob, width |-> ret.width, cell |-> ret.cell,
               loaded |-> msgpack_loads(ret.cell, call.compress)],
              EmptyMap)
    /\ UNCHANGED <<fh, gen, disk>>

SpecCodec == Init /\ [][CodecDumps \/ CodecStore \/ CodecLoads]_vars

(***************************************************************************)
(* SpecFlavor: a table made by create_ctable or by a first append, then    *)
(* appends that pass each column as a list or as a numpy array, with data  *)
(* that fits, is too wide, has the wrong type, or is of no storable type.  *)
(***************************************************************************)
MaxAppends == 3     \* calls made in SpecFlavor

FlavorSchemas ==
    { <<E("c1", DT("i", 0)), E("c2", DT("s", 1))>>,
      <<E("c2", DT("o", 3)), E("c1", DT("i", 0))>> }

\* entry for column k, passed as a numpy array when k is in np
Col(k, v, np) == IF k \in np THEN NdE(k, v) ELSE E(k, v)

FlavorData(np) ==
    { <<Col("c1", d1, np), Col("c2", d2, np)>> :
        d1 \in {Ints(0, 1), StrShort(1)},
        d2 \in {StrShort(1), StrLong(1), <<PyNone>>} }

FlavorCreate ==
    /\ ncalls = 0
    /\ \E ct \in FlavorSchemas : DoCreate(ct)

FlavorAppend ==
    /\ ncalls < MaxAppends
    /\ \E np \in SUBSET {"c1", "c2"} : \E d \in FlavorData(np) : \E rz \in BOOLEAN :
          DoAppend(d, <<>>, rz)

SpecFlavor == Init /\ [][FlavorCreate \/ FlavorAppend]_vars

(***************************************************************************)
(* iter_column is a generator function.  Calling it runs none of its body; *)
(* the first next() enters the with block (opens the file), validates and  *)
(* runs to the first yield; every yield hands a value and the control to   *)
(* the caller with the generator suspended inside the with block.  The     *)
(* block is left when the rows are exhausted, when the body raises, or     *)
(* when the generator is closed or dropped (GeneratorExit at the yield).   *)
(***************************************************************************)
\* lines 533-545: the checks and lookups before the loop
IterStartOk(st, col) ==
    LET info == _table_info(st)
    IN  /\ ~info.err /\ ~info.empty /\ info.has
        /\ col \in Keys(st.a.coldt)
        /\ st.a.hasFlavor /\ col \in DOMAIN st.a.flavor
        /\ col \in DOMAIN st.n

\* lines 547-560: the value yielded for a row
IterValue(row, dtype) ==
    CASE dtype.kind = "s" -> S(row.b)
      [] dtype.kind = "o" -> msgpack_loads(row.b, FALSE)
      [] dtype.kind = "c" -> msgpack_loads(row.b, TRUE)
      [] OTHER -> row

IterColumn ==
    /\ Loaded /\ gen.state = "none"
    /\ \E col \in {"c1", "c2", "c3", "c4"} : \E flavor \in {"", "numpy"} :
          /\ gen' = [state |-> "created", col |-> col, flavor |-> flavor, pos |-> 0]
          /\ fh' = fh
          /\ disk' = disk
          /\ Record([NoCall EXCEPT !.op = "iter_column", !.col = col], Cur, EmptyMap, EmptyMap)

\* next(generator): ret holds the value yielded; call.ok is FALSE when the body raised
IterNext ==
    /\ gen.state \in {"created", "suspended"}
    /\ disk' = disk
    /\ LET h == IF gen.state = "created" THEN Open(fh) ELSE fh
           ok == gen.state = "suspended" \/ IterStartOk(Cur, gen.col)
           more == ok /\ gen.pos < Len(nodes[gen.col].rows)
           v == IF more
                THEN IterValue(nodes[gen.col].rows[gen.pos + 1], Get(attrs.coldt, gen.col))
                ELSE PyError
           c == [NoCall EXCEPT !.op = "next", !.col = gen.col]
       IN  IF more /\ v # PyError
           THEN /\ gen' = [gen EXCEPT !.state = "suspended", !.pos = gen.pos + 1]
                /\ fh' = h
                /\ Record(c, Cur, [value |-> v], EmptyMap)
           ELSE /\ gen' = [gen EXCEPT !.state = "finished"]
                /\ fh' = Close(h)
                /\ Record(c, [Cur EXCEPT !.err = ~ok \/ more], EmptyMap, EmptyMap)

\* generator.close(), or the last reference to the generator goes away
IterClose ==
    /\ gen.state \in {"created", "suspended"}
    /\ gen' = [gen EXCEPT !.state = "finished"]
    /\ fh' = IF gen.state = "suspended" THEN Close(fh) ELSE fh
    /\ disk' = disk
    /\ Record([NoCall EXCEPT !.op = "close", !.col = gen.col], Cur, EmptyMap, EmptyMap)

SpecIter == Init /\ [][LoadTable \/ IterColumn \/ IterNext \/ IterClose]_vars

(***************************************************************************)
(* delete_ctable and table_info.  SpecDrop: a table or none, then          *)
(* delete_ctable with either raise_exception and table_info, in any order. *)
(* Its first call opens the file in mode 'a', so the file exists when      *)
(* table_info opens it in mode 'r'.                                        *)
(***************************************************************************)
MaxDrop == 4        \* calls made in SpecDrop

\* a removal that takes the group and its column nodes but leaves the metadata behind
delete_ctable_keeps_metadata(st, raise_exception) ==
    IF st.g THEN St(FALSE, EmptyMap, st.a, FALSE)
    ELSE IF raise_exception THEN Raise(st)
    ELSE st

\* h5.remove_node(nodepath, recursive=True): the group goes with its column nodes and
\* its attributes; NoSuchNodeError when there is no group, swallowed unless raise_exception
delete_ctable(st, raise_exception) ==
    IF st.g THEN St(FALSE, EmptyMap, NoAttrs, FALSE)
    ELSE IF raise_exception THEN Raise(st)
    ELSE st

\* the dict table_info returns: empty when the table has no metadata
table_info(st) ==
    LET info == _table_info(st)
    IN  IF info.err THEN [err |-> TRUE, data |-> EmptyMap]
        ELSE IF info.empty THEN [err |-> FALSE, data |-> EmptyMap]
        ELSE [err |-> FALSE,
              data |-> (IF info.has THEN [num_rows |-> info.nrows] ELSE EmptyMap)
                          @@ (IF st.a.hasFlavor THEN [col_flavor |-> st.a.flavor] ELSE EmptyMap)
                          @@ [col_dtype |-> st.a.coldt]]

DeleteCtable ==
    /\ ncalls < MaxDrop
    /\ \E rx \in BOOLEAN :
          Done([NoCall EXCEPT !.op = "delete_ctable", !.raise_exception = rx],
               delete_ctable(Cur, rx), EmptyMap, EmptyMap)

TableInfo ==
    /\ ncalls >= 1 /\ ncalls < MaxDrop
    /\ \E r \in {table_info(Cur)} :
          Done([NoCall EXCEPT !.op = "table_info"], [Cur EXCEPT !.err = r.err], r.data, EmptyMap)

SpecDrop == Init /\ [][LoadTable \/ DeleteCtable \/ TableInfo]_vars

(***************************************************************************)
(* repack.  copy_file writes every group, node and attribute of the file   *)
(* to tmp_name, which is the store's path with a uuid put in front of it:  *)
(* a name in the working directory when the path is a bare file name, a    *)
(* name in a directory that need not exist otherwise, so the copy can      *)
(* fail.  After the copy the original is removed, the copy renamed to it,  *)
(* and the marker array written in a second with block.                    *)
(***************************************************************************)
MaxRepack == 3      \* calls made in SpecRepack

\* repack that opens the file in mode 'a' for the copy
repack_opening_for_append(st, d, copied) ==
    IF ~copied THEN [st |-> Raise(st), disk |-> [d EXCEPT !.file = TRUE]]
    ELSE [st |-> St(st.g, [c \in DOMAIN st.n |-> Node(st.n[c].atom, st.n[c].size, st.n[c].rows)],
                    st.a, FALSE),
          disk |-> [d EXCEPT !.file = TRUE, !.marker = TRUE, !.stamps = @ + 1]]

repack(st, d, copied) ==
    IF ~d.file \/ ~copied THEN [st |-> Raise(st), disk |-> d]
    ELSE [st |-> St(st.g, [c \in DOMAIN st.n |-> Node(st.n[c].atom, st.n[c].size, st.n[c].rows)],
                    st.a, FALSE),
          disk |-> [d EXCEPT !.marker = TRUE, !.stamps = @ + 1]]

\* the two with blocks are left one after the other
Repack ==
    /\ ncalls < MaxRepack
    /\ \E copied \in BOOLEAN : \E r \in {repack(Cur, disk, copied)} :
          /\ Record([NoCall EXCEPT !.op = "repack"], r.st, EmptyMap, EmptyMap)
          /\ disk' = r.disk
          /\ fh' = Close(Open(Close(Open(fh))))
          /\ gen' = gen

SpecRepack == Init /\ [][LoadTable \/ DeleteCtable \/ Repack]_vars

(***************************************************************************)
(* C1: after any sequence of calls that all succeeded, every column of the *)
(* schema has a node and all of them hold the same number of rows.         *)
(***************************************************************************)
SchemaLens(n, a) == {Len(n[c].rows) : c \in Keys(a.coldt) \cap DOMAIN n}

EqualLengths(n, a) ==
    /\ Keys(a.coldt) \subseteq DOMAIN n
    /\ Cardinality(SchemaLens(n, a)) <= 1

C1_EqualLengthAfterSuccess == okrun => EqualLengths(nodes, attrs)

\* reached: a schema of two columns holding rows, after a delete_rows that succeeded
C1_Witness ==
    /\ okrun /\ call.op = "delete_rows" /\ call.ok
    /\ Len(attrs.coldt) >= 2
    /\ \A c \in Keys(attrs.coldt) : Len(nodes[c].rows) >= 1
    /\ pre.nodes # nodes

(***************************************************************************)
(* C2: when a column write fails inside the per-column loop of an          *)
(* append_ctable on an existing table, the call raises, every schema       *)
(* column is back at its pre-call length with its pre-call rows, and no    *)
(* column node has been created or removed.                                *)
(***************************************************************************)
C2_FailedAppendRestores ==
    (call.op = "append_ctable" /\ pre.attrs.exists /\ call.loopfail) =>
        /\ ~call.ok
        /\ DOMAIN nodes = DOMAIN pre.nodes
        /\ \A c \in Keys(pre.attrs.coldt) \cap DOMAIN pre.nodes :
              /\ Len(nodes[c].rows) = Len(pre.nodes[c].rows)
              /\ nodes[c].rows = pre.nodes[c].rows

\* reached: the failing column came after a column that had already grown
C2_Witness ==
    /\ call.op = "append_ctable" /\ pre.attrs.exists /\ call.loopfail /\ ~call.ok
    /\ \E c \in Keys(pre.attrs.coldt) :
          /\ Len(pre.nodes[c].rows) >= 1
          /\ Len(call.mid[c].rows) > Len(pre.nodes[c].rows)
          /\ nodes[c].rows = pre.nodes[c].rows

(***************************************************************************)
(* C3: a successful append_ctable of n rows to an existing table of N rows *)
(* keeps rows 0..N-1 of every column, stores the i-th supplied value at    *)
(* position N+i, leaves every column N+n long, and a full read then        *)
(* returns what a full read returned before the call (the old rows)        *)
(* followed by the new ones.                                               *)
(***************************************************************************)
PreSt == St(pre.group, pre.nodes, pre.attrs, FALSE)
FullRead(st) == read_ctable(st, {}, NoQuery, <<>>)

C3_AppendKeepsAndAdds ==
    (call.op = "append_ctable" /\ call.ok /\ pre.attrs.exists) =>
        /\ \A c \in Keys(attrs.coldt) :
              LET old == pre.nodes[c].rows
                  new == nodes[c].rows
                  given == Get(call.col_data, c)
              IN  /\ Len(new) = Len(old) + Len(given)
                  /\ SubSeq(new, 1, Len(old)) = old
                  /\ \A i \in DOMAIN given :
                        Decode(new[Len(old) + i], Get(attrs.coldt, c)) = given[i]
        /\ ~FullRead(PreSt).err =>
              /\ ~FullRead(Cur).err
              /\ \A c \in Keys(attrs.coldt) :
                    FullRead(Cur).data[c] = FullRead(PreSt).data[c] \o Get(call.col_data, c)

\* reached: rows appended behind existing rows, one column widened on the way
C3_Witness ==
    /\ call.op = "append_ctable" /\ call.ok /\ pre.attrs.exists
    /\ Len(attrs.coldt) >= 2
    /\ \A c \in Keys(attrs.coldt) :
          Len(pre.nodes[c].rows) >= 1 /\ Len(nodes[c].rows) > Len(pre.nodes[c].rows)
    /\ \E c \in Keys(attrs.coldt) : nodes[c].size > pre.nodes[c].size

(***************************************************************************)
(* What a query means, read off the claims: a row satisfies a query when   *)
(* it satisfies every clause, and a clause when it satisfies one of its    *)
(* triples; a bare triple is a query of one clause.                        *)
(***************************************************************************)
OpHolds(op, lt, eq) ==
    CASE op = "==" -> eq
      [] op = "!=" -> ~eq
      [] op = "<"  -> lt
      [] op = "<=" -> lt \/ eq
      [] op = ">"  -> ~lt /\ ~eq
      [] op = ">=" -> ~lt

TripleHolds(n, t, p) ==
    IF t.col \notin DOMAIN n \/ p \notin DOMAIN n[t.col].rows THEN FALSE
    ELSE LET cell == n[t.col].rows[p]
         IN  IF t.val.t = "int" THEN OpHolds(t.op, cell.n < t.val.n, cell.n = t.val.n)
             ELSE OpHolds(t.op, BytesLess(cell.b, t.val.b), cell.b = t.val.b)

ClausesOf(q) == IF q.tag = "triple" THEN {q} ELSE Range(q.items)
TriplesOf(cl) == IF cl.tag = "triple" THEN {cl} ELSE Range(cl.items)

RowSat(n, q, p) == \A cl \in ClausesOf(q) : \E t \in TriplesOf(cl) : TripleHolds(n, t, p)

\* the table before the last call: its schema columns (those that have a node) and its
\* row count, which is the length of the first schema column
PreCols == Keys(pre.attrs.coldt) \cap DOMAIN pre.nodes
PreLen ==
    IF pre.attrs.coldt = <<>> \/ pre.attrs.coldt[1].name \notin DOMAIN pre.nodes THEN 0
    ELSE Len(pre.nodes[pre.attrs.coldt[1].name].rows)

\* the 0-based positions the last delete_rows was asked to remove
Asked ==
    IF call.rows # <<>> THEN Range(call.rows)
    ELSE {p \in 0 .. PreLen - 1 : RowSat(pre.nodes, call.query, p + 1)}

DeletedValid ==
    /\ call.op = "delete_rows" /\ call.ok
    /\ Asked \subseteq 0 .. PreLen - 1

(***************************************************************************)
(* C4: delete_rows of the k distinct valid positions R from a column of    *)
(* length N, last = N-k: a position below last outside R keeps its value,  *)
(* the i-th smallest position of R below last gets the value of the i-th   *)
(* smallest position of [last, N) outside R, and the column is N-k long.   *)
(***************************************************************************)
C4_DeleteRelocation ==
    DeletedValid =>
        \A c \in PreCols :
            LET old == pre.nodes[c].rows
                new == nodes[c].rows
                N == Len(old)
                last == N - Cardinality(Asked)
                holes == SortedSeq({r \in Asked : r < last})
                fill == SortedSeq((last .. N - 1) \ Asked)
            IN  /\ Len(new) = last
                /\ \A p \in 0 .. last - 1 : p \notin Asked => new[p + 1] = old[p + 1]
                /\ Len(holes) = Len(fill)
                /\ \A i \in DOMAIN holes : new[holes[i] + 1] = old[fill[i] + 1]

\* reached: two holes below last filled from two kept tail rows, positions given unsorted
C4_Witness ==
    /\ DeletedValid
    /\ Cardinality({r \in Asked : r < PreLen - Cardinality(Asked)}) >= 2
    /\ Len(call.rows) > Cardinality(Asked)
    /\ Len(nodes[pre.attrs.coldt[1].name].rows) = PreLen - Cardinality(Asked)

(***************************************************************************)
(* C5: deleting k distinct rows from an N-row table writes, per column,    *)
(* exactly as many rows as there are removed positions below N-k (at most  *)
(* k), and only to positions that are being removed.                       *)
(***************************************************************************)
Writes(c) == IF c \in DOMAIN wlog THEN wlog[c] ELSE <<>>

C5_DeleteWrites ==
    DeletedValid =>
        \A c \in PreCols :
            /\ Len(Writes(c)) =
                  Cardinality({r \in Asked : r < PreLen - Cardinality(Asked)})
            /\ Len(Writes(c)) <= Cardinality(Asked)
            /\ Range(Writes(c)) \subseteq Asked

\* reached: fewer writes than removed rows, because a removed row lay in the tail
C5_Witness ==
    /\ DeletedValid
    /\ Cardinality(Asked) >= 2
    /\ \A c \in PreCols : Len(Writes(c)) >= 1 /\ Len(Writes(c)) < Cardinality(Asked)

(***************************************************************************)
(* C6: delete_rows applies one relocation to every column: the row tuples  *)
(* left, counted with multiplicity, are the original tuples without those  *)
(* at the deleted positions, so no row left mixes two original rows.  With *)
(* a query the positions are those the query matched before the call.      *)
(***************************************************************************)
RowAt(n, p) == [c \in PreCols |-> n[c].rows[p]]

C6_DeleteKeepsTuples ==
    DeletedValid =>
        LET keep == {p \in 1 .. PreLen : (p - 1) \notin Asked}
            M == PreLen - Cardinality(Asked)
        IN  /\ \A c \in PreCols : Len(nodes[c].rows) = M
            /\ \A q \in 1 .. PreLen :
                  Cardinality({p \in 1 .. M : RowAt(nodes, p) = RowAt(pre.nodes, q)}) =
                  Cardinality({p \in keep : RowAt(pre.nodes, p) = RowAt(pre.nodes, q)})
            /\ \A p \in 1 .. M : \E q \in keep : RowAt(nodes, p) = RowAt(pre.nodes, q)

\* reached: a delete by query on a table of three columns that moved a tail row down
C6_Witness ==
    /\ DeletedValid
    /\ Truthy(call.query)
    /\ Cardinality(PreCols) = 3
    /\ Asked # {}
    /\ \E c \in PreCols : Len(Writes(c)) >= 1

(***************************************************************************)
(* What a read is expected to return: the stored cell at each selected     *)
(* position, decoded by the column's dtype, for the schema columns asked.  *)
(***************************************************************************)
ReadOk == call.op = "read_ctable" /\ call.ok
Wanted == IF call.cols = {} THEN PreCols ELSE PreCols \cap call.cols
ValuesAt(c, positions) ==
    [j \in DOMAIN positions |->
        Decode(nodes[c].rows[PyIndex(positions[j], PreLen) + 1], Get(attrs.coldt, c))]

(***************************************************************************)
(* C7: read_ctable with a non-empty query returns, per returned column,    *)
(* the values at the positions whose row satisfies every clause (a clause  *)
(* of several triples being their disjunction, a bare triple a one-clause  *)
(* query), in ascending position order.                                    *)
(***************************************************************************)
Hits == SortedSeq({p \in 0 .. PreLen - 1 : RowSat(nodes, call.query, p + 1)})

\* the query can be asked of each row: the columns it names hold one value per table row
QueryDefined ==
    \A cl \in ClausesOf(call.query) : \A t \in TriplesOf(cl) :
        t.col \in DOMAIN nodes /\ Len(nodes[t.col].rows) = PreLen

C7_QueryReadsMatches ==
    (ReadOk /\ Truthy(call.query) /\ call.rows = <<>> /\ QueryDefined) =>
        /\ DOMAIN ret = Wanted
        /\ \A c \in Wanted : ret[c] = ValuesAt(c, Hits)

\* reached: a query with a clause of two triples that matched some rows but not all
C7_Witness ==
    /\ ReadOk /\ call.rows = <<>>
    /\ call.query.tag = "list"
    /\ \E i \in DOMAIN call.query.items :
          call.query.items[i].tag = "list" /\ Len(call.query.items[i].items) = 2
    /\ Len(Hits) >= 2 /\ Len(Hits) < PreLen
    /\ \E c \in DOMAIN ret : Len(ret[c]) = Len(Hits)

(***************************************************************************)
(* C8 as stated: a read given an empty query returns no rows.              *)
(***************************************************************************)
C8_EmptyQueryReadsNothing ==
    (ReadOk /\ ~Truthy(call.query) /\ call.rows = <<>>) =>
        \A c \in DOMAIN ret : ret[c] = <<>>

(***************************************************************************)
(* C8 as amended: a read given an empty query and no inds returns every    *)
(* row of each returned column, in position order.                         *)
(***************************************************************************)
C8_EmptyQueryReadsAll ==
    (ReadOk /\ ~Truthy(call.query) /\ call.rows = <<>>) =>
        /\ DOMAIN ret = Wanted
        /\ \A c \in Wanted : ret[c] = ValuesAt(c, [p \in 1 .. PreLen |-> p - 1])

\* reached: an empty query read back all the rows of a table of several rows
C8_Witness ==
    /\ ReadOk /\ ~Truthy(call.query) /\ call.rows = <<>>
    /\ PreLen >= 2
    /\ \E c \in DOMAIN ret : Len(ret[c]) = PreLen

(***************************************************************************)
(* C9: read_ctable given a non-empty inds returns, per returned column,    *)
(* the values at those positions in the order given, whatever query is     *)
(* passed with it, and only the schema columns that are in cols.           *)
(***************************************************************************)
C9_IndsReadInOrder ==
    (ReadOk /\ call.rows # <<>>) =>
        /\ DOMAIN ret = Wanted
        /\ \A c \in Wanted :
              /\ \A j \in DOMAIN call.rows : PyIndex(call.rows[j], PreLen) >= 0
              /\ ret[c] = ValuesAt(c, call.rows)

\* reached: positions out of order, a query that matches other rows, a cols list naming
\* one schema column and one unknown column
C9_Witness ==
    /\ ReadOk /\ Len(call.rows) >= 2 /\ call.rows[1] > call.rows[2]
    /\ call.query = T("c1", "<", I(0))
    /\ call.cols = {"c1", "c4"}
    /\ DOMAIN ret = {"c1"} /\ Len(ret["c1"]) = Len(call.rows)

(***************************************************************************)
(* C10: update_ctable fails before it writes to any column when the value  *)
(* sequences differ in length, or when their common length is neither 1    *)
(* nor the number of rows the query matches; every column is then as it    *)
(* was before the call.                                                    *)
(***************************************************************************)
DataLens == {Len(call.col_data[i].val) : i \in DOMAIN call.col_data}
Matched == {p \in 0 .. PreLen - 1 : RowSat(pre.nodes, call.query, p + 1)}

BadLengths ==
    \/ Cardinality(DataLens) > 1
    \/ Truthy(call.query) /\ \E l \in DataLens : l # 1 /\ l # Cardinality(Matched)

C10_UpdateLengthsChecked ==
    (call.op = "update_ctable" /\ pre.attrs.exists /\ BadLengths) =>
        /\ ~call.ok
        /\ nodes = pre.nodes
        /\ attrs = pre.attrs

\* reached: a first column that could have been written (one value, several rows
\* matched) followed by a column of another length
C10_Witness ==
    /\ call.op = "update_ctable" /\ pre.attrs.exists /\ ~call.ok
    /\ Cardinality(DataLens) = 2
    /\ Len(call.col_data[1].val) = 1
    /\ Truthy(call.query) /\ Cardinality(Matched) >= 2
    /\ nodes = pre.nodes

(***************************************************************************)
(* C11: a successful update_ctable changes only the matched positions of   *)
(* the columns named in col_data: one value is written to every matched    *)
(* position, as many values as matched rows are written to the matched     *)
(* positions in ascending order; unmatched positions, columns not named    *)
(* and the length of every column stay as they were.                       *)
(***************************************************************************)
UpdateOk == call.op = "update_ctable" /\ call.ok
Named == Keys(call.col_data)
MatchedSeq == SortedSeq(Matched)

C11_UpdateWritesMatchedOnly ==
    UpdateOk =>
        /\ DOMAIN nodes = DOMAIN pre.nodes
        /\ \A c \in DOMAIN nodes :
              /\ Len(nodes[c].rows) = Len(pre.nodes[c].rows)
              /\ \A p \in DOMAIN nodes[c].rows :
                    (c \notin Named \/ (p - 1) \notin Matched) =>
                        nodes[c].rows[p] = pre.nodes[c].rows[p]
        /\ \A c \in Named : \A i \in DOMAIN MatchedSeq :
              LET given == Get(call.col_data, c)
              IN  Decode(nodes[c].rows[MatchedSeq[i] + 1], Get(attrs.coldt, c)) =
                      IF Len(given) = 1 THEN given[1] ELSE given[i]

\* reached: two named columns, two or more values each, rows left unmatched
C11_Witness ==
    /\ UpdateOk
    /\ Cardinality(Named) = 2
    /\ Len(call.col_data[1].val) >= 2
    /\ Cardinality(Matched) = Len(call.col_data[1].val)
    /\ Cardinality(Matched) < PreLen
    /\ nodes # pre.nodes

(***************************************************************************)
(* C12 as stated: update_ctable skips every column of col_data that is not *)
(* in the schema without raising, and applies the update to the other      *)
(* named columns: the call ends as the same call without those columns.    *)
(***************************************************************************)
KnownData == SelectSeq(call.col_data, LAMBDA e : e.name \in Keys(pre.attrs.coldt))
WithoutUnknown == update_ctable(PreSt, call.query, KnownData, call.resize)

\* an update naming a column outside the schema which, without it, would succeed
NamesUnknown ==
    /\ call.op = "update_ctable" /\ pre.attrs.exists
    /\ ~(Named \subseteq Keys(pre.attrs.coldt))
    /\ KnownData # <<>>
    /\ ~WithoutUnknown.err

C12_UnknownColumnSkipped ==
    NamesUnknown => (call.ok /\ nodes = WithoutUnknown.n)

(***************************************************************************)
(* Calls that nothing but a width can stop: the table exists, every schema *)
(* column has its node, the batch names the columns the call needs, its    *)
(* sequences agree in length and each converts to its column's atom.       *)
(***************************************************************************)
PreSchema == Keys(pre.attrs.coldt)
Batch(c) == _convert_data(Get(call.col_data, c), Get(pre.attrs.coldt, c))
WellTyped(c) == c \in DOMAIN pre.nodes /\ Convertible(pre.nodes[c], Batch(c))

AppendValid ==
    /\ call.op = "append_ctable" /\ pre.attrs.exists
    /\ PreSchema # {} /\ PreSchema \subseteq Named
    /\ Cardinality(DataLens) = 1
    /\ \A c \in PreSchema : WellTyped(c)

UpdateValid ==
    /\ call.op = "update_ctable" /\ pre.attrs.exists
    /\ Named # {} /\ Named \subseteq PreSchema
    /\ Truthy(call.query) /\ ~_filter_inds(pre.nodes, call.query).err
    /\ ~BadLengths
    /\ \A c \in Named : WellTyped(c)

\* the batch for column c is wider than the width declared for c
Overflows(c) ==
    /\ c \in PreSchema \cap Named
    /\ IsStrKind(Get(pre.attrs.coldt, c).kind)
    /\ Batch(c).size > Get(pre.attrs.coldt, c).width

\* the positions of the column the call does not write
Untouched(c) ==
    IF call.op = "update_ctable" THEN {p \in DOMAIN pre.nodes[c].rows : (p - 1) \notin Matched}
    ELSE DOMAIN pre.nodes[c].rows

(***************************************************************************)
(* C13 as stated: with resize on, an append or update whose batch is wider *)
(* than an s, o or c column succeeds, leaves the column at least as wide   *)
(* as the batch, and keeps every stored row of the column in its place.    *)
(***************************************************************************)
C13_WideningSucceeds ==
    ((AppendValid \/ UpdateValid) /\ call.resize /\ \E c \in PreSchema : Overflows(c)) =>
        /\ call.ok
        /\ \A c \in PreSchema : Overflows(c) =>
              /\ nodes[c].size >= Batch(c).size
              /\ \A p \in Untouched(c) : nodes[c].rows[p] = pre.nodes[c].rows[p]

(***************************************************************************)
(* C14: append_ctable with resize=False whose batch is wider than an s, o  *)
(* or c column raises, and every column then has the row count and the     *)
(* stored rows it had before the call, wherever the overflowing column     *)
(* stands in the schema.                                                   *)
(***************************************************************************)
AppendOverflows ==
    /\ call.op = "append_ctable" /\ pre.attrs.exists /\ ~call.resize
    /\ \E c \in PreSchema : Overflows(c)

C14_OverflowingAppendRestores ==
    AppendOverflows =>
        /\ ~call.ok
        /\ nodes = pre.nodes

\* reached: the last of three schema columns overflowed after the two before it had grown
C14_Witness ==
    /\ AppendOverflows /\ ~call.ok /\ call.loopfail
    /\ Len(pre.attrs.coldt) = 3
    /\ Overflows(pre.attrs.coldt[3].name)
    /\ \A i \in 1 .. 2 :
          LET c == pre.attrs.coldt[i].name
          IN  /\ ~Overflows(c)
              /\ Len(pre.nodes[c].rows) >= 1
              /\ Len(call.mid[c].rows) > Len(pre.nodes[c].rows)
    /\ nodes = pre.nodes

(***************************************************************************)
(* C15 as stated: update_ctable with resize=False whose data is wider than *)
(* one of the named columns raises without having written to any column,   *)
(* the columns named before it included.                                   *)
(***************************************************************************)
UpdateOverflows ==
    /\ call.op = "update_ctable" /\ pre.attrs.exists /\ ~call.resize
    /\ \E c \in PreSchema : Overflows(c)

C15_OverflowingUpdateWritesNothing ==
    UpdateOverflows =>
        /\ ~call.ok
        /\ nodes = pre.nodes


(***************************************************************************)
(* C16 as stated: add_column given an explicit s, o or c dtype narrower    *)
(* than the longest encoded value of col_data succeeds; the new column     *)
(* then holds the supplied values, has the table's row count, and its      *)
(* dtype in the schema is at least as wide as the longest value.           *)
(***************************************************************************)
NewData == _convert_data(call.col_data[1].val, call.dtype)

AddNarrow ==
    /\ call.op = "add_column" /\ pre.attrs.exists /\ pre.attrs.hasFlavor
    /\ call.dtype # NoDtype /\ IsStrKind(call.dtype.kind)
    /\ call.col \notin PreSchema /\ call.col \notin DOMAIN pre.nodes
    /\ PreSchema # {} /\ PreSchema \subseteq DOMAIN pre.nodes
    /\ PreLen >= 1 /\ PreLen = Len(call.col_data[1].val)
    /\ NewData.dt = "S"
    /\ NewData.size > call.dtype.width

C16_NarrowAddColumnWidens ==
    AddNarrow =>
        /\ call.ok
        /\ call.col \in DOMAIN nodes
        /\ call.col \in Keys(attrs.coldt)
        /\ nodes[call.col].rows = AsStored(nodes[call.col], NewData)
        /\ Len(nodes[call.col].rows) = PreLen
        /\ Get(attrs.coldt, call.col).width >= NewData.size


(***************************************************************************)
(* C17: for every payload, the ones ending in zero bytes included, and     *)
(* with and without compression, the blob is the serialized payload        *)
(* followed by exactly one byte, which is not zero; the cell read back     *)
(* from the backend, which drops all trailing zero bytes, still is the     *)
(* payload followed by one byte; and loading the cell gives the value.     *)
(***************************************************************************)
Serialized == IF call.compress THEN blosc_compress(packb(call.x)) ELSE packb(call.x)

C17_SentinelRoundTrip ==
    /\ call.op \in {"msgpack_dumps", "store", "msgpack_loads"} =>
          /\ Len(ret.blob) = Len(Serialized) + 1
          /\ DropLast(ret.blob) = Serialized
          /\ ret.blob[Len(ret.blob)] # 0
    /\ call.op \in {"store", "msgpack_loads"} => DropLast(ret.cell) = Serialized
    /\ call.op = "msgpack_loads" => ret.loaded = call.x

\* reached: a compressed payload ending in two zero bytes came back from a wider cell
C17_Witness ==
    /\ call.op = "msgpack_loads" /\ call.compress
    /\ Len(Serialized) >= 2
    /\ Serialized[Len(Serialized)] = 0 /\ Serialized[Len(Serialized) - 1] = 0
    /\ ret.width > Len(ret.blob)
    /\ ret.loaded = call.x


(***************************************************************************)
(* C18 as stated: the flavor map is recorded by the first append that      *)
(* succeeds, from the containers of that call; an append on a table that   *)
(* has a flavor map leaves the map as it is whatever containers it passes; *)
(* an append that fails records no flavor map.                             *)
(***************************************************************************)
AppendCall == call.op = "append_ctable"

C18_FlavorStable ==
    (AppendCall /\ pre.attrs.hasFlavor) =>
        (attrs.hasFlavor /\ attrs.flavor = pre.attrs.flavor)

C18_FlavorFromFirstSuccess ==
    /\ C18_FlavorStable
    /\ (AppendCall /\ ~pre.attrs.hasFlavor /\ call.ok) =>
          (attrs.hasFlavor /\ attrs.flavor = FlavorOf(call.col_data, attrs.coldt))
    /\ (AppendCall /\ ~pre.attrs.hasFlavor /\ ~call.ok) => ~attrs.hasFlavor


(***************************************************************************)
(* C19 as stated: whenever the caller has the control, that is between any *)
(* two steps of the model, no handle on the file is open: every public     *)
(* operation, iter_column included, has closed the handle it opened.       *)
(***************************************************************************)
C19_NoHandleOpenAtCaller == fh = 0

\* what holds instead: a handle is open only while a generator is suspended at a yield
HandleOnlyWhileSuspended == fh = (IF gen.state = "suspended" THEN 1 ELSE 0)


(***************************************************************************)
(* C20: delete_ctable on an existing table succeeds and leaves no group,   *)
(* no column node and no metadata, so that table_info on the file then     *)
(* returns the empty dict, as does every table_info call made while the    *)
(* table is gone; on a table that does not exist it returns quietly with   *)
(* raise_exception=False and raises with raise_exception=True, and in both *)
(* cases the file is as it was.                                            *)
(***************************************************************************)
DropCall == call.op = "delete_ctable"

C20_DeleteCtable ==
    /\ (DropCall /\ pre.group) =>
          /\ call.ok
          /\ ~group /\ nodes = EmptyMap /\ attrs = NoAttrs
          /\ table_info(Cur) = [err |-> FALSE, data |-> EmptyMap]
    /\ (DropCall /\ ~pre.group) =>
          /\ call.ok = ~call.raise_exception
          /\ group = pre.group /\ nodes = pre.nodes /\ attrs = pre.attrs
    /\ (call.op = "table_info" /\ ~pre.group) => (call.ok /\ ret = EmptyMap)

\* reached: a table with rows was deleted and table_info on the file returns the empty dict
C20_Witness ==
    /\ DropCall /\ pre.group /\ pre.attrs.exists /\ PreLen >= 1
    /\ call.ok
    /\ ~group /\ nodes = EmptyMap /\ attrs = NoAttrs
    /\ table_info(Cur).data = EmptyMap

\* reached: delete_ctable with raise_exception=True raised on a table that was not there
C20_WitnessMissing ==
    /\ DropCall /\ ~pre.group /\ call.raise_exception /\ ~call.ok
    /\ ~group /\ nodes = EmptyMap /\ attrs = NoAttrs


(***************************************************************************)
(* C21 as stated: delete_column with raise_exception=False never raises;   *)
(* a column that exists leaves the nodes, the dtype map and the flavor     *)
(* map; when the table or the column does not exist nothing changes; the   *)
(* other column nodes are as before in every case.                         *)
(***************************************************************************)
QuietDeleteColumn == call.op = "delete_column" /\ ~call.raise_exception

ColumnExisted == pre.attrs.exists /\ call.col \in PreSchema /\ call.col \in DOMAIN pre.nodes

C21_QuietDeleteColumn ==
    QuietDeleteColumn =>
        /\ call.ok
        /\ ColumnExisted =>
              /\ call.col \notin DOMAIN nodes
              /\ call.col \notin Keys(attrs.coldt)
              /\ attrs.hasFlavor => call.col \notin DOMAIN attrs.flavor
        /\ ~ColumnExisted => (group = pre.group /\ nodes = pre.nodes /\ attrs = pre.attrs)
        /\ \A c \in DOMAIN pre.nodes \ {call.col} : c \in DOMAIN nodes /\ nodes[c] = pre.nodes[c]


(***************************************************************************)
(* C22: append_ctable raises, and the group, every column node and the     *)
(* metadata are exactly as before the call, when the value sequences of    *)
(* col_data differ in length, or when the table exists and col_data lacks  *)
(* a column of its schema.                                                 *)
(***************************************************************************)
UnequalLengths == Cardinality(DataLens) # 1
MissingColumn == pre.attrs.exists /\ ~(PreSchema \subseteq Named)

C22_AppendRejectsBeforeWriting ==
    (AppendCall /\ (UnequalLengths \/ MissingColumn)) =>
        /\ ~call.ok
        /\ group = pre.group /\ nodes = pre.nodes /\ attrs = pre.attrs

\* reached: value sequences of different lengths were refused on a table that holds rows
C22_Witness ==
    /\ AppendCall /\ UnequalLengths /\ ~MissingColumn
    /\ pre.attrs.exists /\ PreLen >= 1
    /\ ~call.ok /\ nodes = pre.nodes /\ attrs = pre.attrs

\* reached: a batch lacking a schema column was refused on a table that holds rows
C22_WitnessMissing ==
    /\ AppendCall /\ MissingColumn /\ ~UnequalLengths
    /\ PreLen >= 1
    /\ ~call.ok /\ nodes = pre.nodes /\ attrs = pre.attrs


(***************************************************************************)
(* C23: add_column raises, with no column node created and the metadata    *)
(* as before, when the table does not exist or when col_data is not as     *)
(* long as the table; when it succeeds the dtype map and the flavor map    *)
(* are the former ones plus the new column, the other entries unchanged,   *)
(* and the table has the row count it had.                                 *)
(***************************************************************************)
AddCall == call.op = "add_column"
AddLen == Len(call.col_data[1].val)
PreHasRows == pre.attrs.coldt # <<>> /\ pre.attrs.coldt[1].name \in DOMAIN pre.nodes

C23_AddColumn ==
    /\ (AddCall /\ (~pre.attrs.exists \/ (PreHasRows /\ PreLen # AddLen))) =>
          /\ ~call.ok
          /\ group = pre.group /\ nodes = pre.nodes /\ attrs = pre.attrs
    /\ (AddCall /\ call.ok) =>
          /\ call.col \notin PreSchema
          /\ Keys(attrs.coldt) = PreSchema \cup {call.col}
          /\ \A c \in PreSchema : Get(attrs.coldt, c) = Get(pre.attrs.coldt, c)
          /\ attrs.hasFlavor /\ pre.attrs.hasFlavor
          /\ DOMAIN attrs.flavor = DOMAIN pre.attrs.flavor \cup {call.col}
          /\ \A c \in DOMAIN pre.attrs.flavor \ {call.col} : attrs.flavor[c] = pre.attrs.flavor[c]
          /\ _table_info(Cur).nrows = PreLen
          /\ Len(nodes[call.col].rows) = PreLen

\* reached: a column as long as a table of two columns was added to it
C23_Witness ==
    /\ AddCall /\ call.ok
    /\ Len(pre.attrs.coldt) = 2 /\ PreLen >= 1
    /\ Len(attrs.coldt) = 3
    /\ call.col \in DOMAIN nodes /\ call.col \notin DOMAIN pre.nodes

\* reached: a column of the wrong length was refused
C23_WitnessLength ==
    /\ AddCall /\ pre.attrs.exists /\ PreHasRows /\ PreLen # AddLen
    /\ ~call.ok /\ nodes = pre.nodes


(***************************************************************************)
(* C24: repack leaves the group, every column node and the metadata of the *)
(* table as they were; when it succeeds the file is still there, holds the *)
(* marker, written once more than before; when it fails the file is as it  *)
(* was; when the file does not exist it raises and no file is created.     *)
(***************************************************************************)
RepackCall == call.op = "repack"

C24_WitnessMissing ==
    /\ RepackCall /\ ~pre.disk.file /\ ~call.ok /\ ~disk.file


(***************************************************************************)
(* C25 as stated: when an append_ctable that has to create the table from  *)
(* the data fails, no column node is left holding rows that another column *)
(* of the call lacks, and the same append with valid data then succeeds.   *)
(***************************************************************************)
FailedImplicitCreate ==
    AppendCall /\ ~pre.group /\ call.col_dtypes = <<>> /\ ~UnequalLengths /\ ~call.ok

RowsOf(c) == IF c \in DOMAIN nodes THEN Len(nodes[c].rows) ELSE 0

\* the columns of the failed call, each with one valid value
RetryData == [i \in DOMAIN call.col_data |-> E(call.col_data[i].name, Ints(0, 1))]

C25_NoPartialTable ==
    FailedImplicitCreate =>
        /\ \A c \in Named : \A d \in Named : RowsOf(c) = RowsOf(d)
        /\ ~_append_ctable(Cur, RetryData, <<>>, TRUE).st.err


(***************************************************************************)
(* C26 as stated: for every s, o or c column of the schema the width in    *)
(* the persisted dtype is the width of the column's node, and a column     *)
(* whose node the last call widened keeps its kind letter and has the new  *)
(* width recorded.                                                         *)
(***************************************************************************)
StrColumns == {c \in Keys(attrs.coldt) \cap DOMAIN nodes : IsStrKind(Get(attrs.coldt, c).kind)}

WidenedColumns ==
    {c \in StrColumns \cap PreSchema \cap DOMAIN pre.nodes : nodes[c].size > pre.nodes[c].size}

C26_RecordedWidthIsPhysical ==
    /\ \A c \in StrColumns : Get(attrs.coldt, c).width = nodes[c].size
    /\ \A c \in WidenedColumns :
          /\ Get(attrs.coldt, c).kind = Get(pre.attrs.coldt, c).kind
          /\ Get(attrs.coldt, c).width = nodes[c].size


(***************************************************************************)
(* C27: an append_ctable, update_ctable or delete_rows call on an existing *)
(* table, whether it succeeds or raises, leaves the schema with the same   *)
(* columns, every column with the kind it had and a width not smaller      *)
(* than before; this includes an append that passes col_dtypes naming      *)
(* other kinds and widths.                                                 *)
(***************************************************************************)
RowCall == call.op \in {"append_ctable", "update_ctable", "delete_rows"} /\ pre.attrs.exists

ZeroMatchUpdate == UpdateValid /\ Matched = {}

C28_ZeroMatchUpdateIsNoOp ==
    ZeroMatchUpdate => (call.ok /\ nodes = pre.nodes /\ attrs = pre.attrs)


(***************************************************************************)
(* C29 as stated: delete_rows given a position outside 0 .. N-1 (at or     *)
(* beyond the length N, or negative) raises and leaves every column and    *)
(* the metadata as they were; and a delete_rows by positions never leaves  *)
(* a column shorter than N minus the number of valid positions named.      *)
(***************************************************************************)
RowsCall == call.op = "delete_rows" /\ pre.attrs.exists /\ call.rows # <<>>

InvalidRows == RowsCall /\ \E r \in Range(call.rows) : r < 0 \/ r >= PreLen

NamedValid == Range(call.rows) \cap (0 .. PreLen - 1)

C29_InvalidRowAborts ==
    /\ InvalidRows => (~call.ok /\ nodes = pre.nodes /\ attrs = pre.attrs)
    /\ RowsCall =>
          \A c \in PreCols : Len(nodes[c].rows) >= PreLen - Cardinality(NamedValid)


(***************************************************************************)
(* C30 as stated: an append_ctable on an existing table that raises leaves *)
(* the persisted schema as it was: the declared dtype of every column and  *)
(* the width of every column node are those of before the call, also when  *)
(* an earlier column of the call was widened before a later one failed.    *)
(***************************************************************************)
FailedAppend == call.op = "append_ctable" /\ pre.attrs.exists /\ ~call.ok

C30_FailedAppendKeepsSchema ==
    FailedAppend =>
        /\ attrs.coldt = pre.attrs.coldt
        /\ \A c \in PreCols \cap DOMAIN nodes : nodes[c].size = pre.nodes[c].size

====
